---- MODULE Spec2Model ----
(***************************************************************************)
(* Model of the SafeCar edge service telemetry core:                       *)
(*   SensorReadingService.create_sensor_reading   (validation)             *)
(*   SensorReadingService.determine_alert_severity (severity checks)       *)
(*   SensorReadingService.determine_telemetry_type (type selection)        *)
(*   SafeCarBackendService._build_telemetry_payload, send_telemetry_sample *)
(*   TelemetryApplicationService.record_sensor_reading                     *)
(*                                                                         *)
(* Numbers.  The Python floats are modelled as fixed-point integers in     *)
(* tenths of the unit (98.5 C is 985, 4.3 A is 43, 1250 ppm is 12500), so  *)
(* every threshold and range limit of the code is an exact integer.        *)
(* Optionals.  An Optional[T] is a sequence of length 0 (None) or 1.       *)
(* Strings that the code strips are sequences of one-character strings.    *)
(***************************************************************************)
EXTENDS Integers, Sequences, FiniteSets, TLC

VARIABLES input, pc, result, severity, telemetry_type, payload, api_key, devices, store, sent, backend_success, response, iam_call, calls, request, http_response, first_request, db_inits, thread_pc

\* the state of a call of record_sensor_reading and of what it writes to
record_state == <<api_key, devices, store, sent, backend_success, response>>

\* the last call of AuthApplicationService, the HTTP request and its answer,
\* and the start-up state of app.py
service_state == <<iam_call, calls, request, http_response, first_request, db_inits, thread_pc>>

vars == <<input, pc, result, severity, telemetry_type, payload, record_state, service_state>>

None == <<>>
Some(v) == <<v>>
IsNone(x) == x = <<>>
NotNone(x) == x # <<>>
Val(x) == x[1]

(***************************************************************************)
(* Strings                                                                  *)
(***************************************************************************)
IsSpace(c) == c = " "

RECURSIVE LStrip(_)
LStrip(s) == IF s # <<>> /\ IsSpace(Head(s)) THEN LStrip(Tail(s)) ELSE s

RECURSIVE RStrip(_)
RStrip(s) ==
    IF s # <<>> /\ IsSpace(s[Len(s)]) THEN RStrip(SubSeq(s, 1, Len(s) - 1)) ELSE s

\* str.strip()
Strip(s) == RStrip(LStrip(s))

\* truthiness of an Optional[str] held as a character sequence
Truthy(x) == NotNone(x) /\ Val(x) # <<>>

\* truthiness of an Optional[str] held as a TLA+ string
TruthyText(x) == NotNone(x) /\ Val(x) # ""

(***************************************************************************)
(* Thresholds of SensorReadingService, in tenths of the unit               *)
(***************************************************************************)
CABIN_TEMP_CRITICAL_HIGH == 500
CABIN_TEMP_WARNING_HIGH == 400
ENGINE_TEMP_CRITICAL_HIGH == 1100
ENGINE_TEMP_WARNING_HIGH == 950
TEMP_WARNING_LOW == -100
HUMIDITY_CRITICAL_HIGH == 900
HUMIDITY_WARNING_HIGH == 750
HUMIDITY_WARNING_LOW == 200
GAS_CRITICAL_PPM == 50000
GAS_WARNING_PPM == 10000
CURRENT_CRITICAL_HIGH == 45
CURRENT_WARNING_HIGH == 40
CURRENT_WARNING_LOW == 5

(***************************************************************************)
(* Timestamps.  dateutil.parser.parse is a library function: it is         *)
(* modelled by the table of the raw strings the model uses, giving the     *)
(* wall-clock minute and the UTC offset; astimezone(utc) subtracts the     *)
(* offset.  Times are minutes.                                             *)
(***************************************************************************)
ParseTable ==
    [s \in {"2025-11-13T10:30:00Z", "2025-11-13T05:30:00-05:00"} |->
        IF s = "2025-11-13T10:30:00Z" THEN [wall |-> 630, offset |-> 0]
        ELSE [wall |-> 330, offset |-> -300]]

Parsable(s) == s \in DOMAIN ParseTable

\* the wall-clock reading of the parsed timestamp, its offset ignored
ParseWallClock(s) == ParseTable[s].wall

\* parse(timestamp).astimezone(timezone.utc)
ParseUtc(s) == ParseTable[s].wall - ParseTable[s].offset

\* datetime.now(timezone.utc)
NowUtc == 720

(***************************************************************************)
(* SensorReading entity                                                     *)
(***************************************************************************)
SensorReading(device_id, vehicle_id, driver_id, sensor_location, cabin_temperature_celsius, cabin_humidity_percent, engine_temperature_celsius, engine_humidity_percent, gas_type, gas_concentration_ppm, latitude, longitude, current_amperes, timestamp) ==
    [id |-> None,
     device_id |-> device_id,
     vehicle_id |-> vehicle_id,
     driver_id |-> driver_id,
     sensor_location |-> sensor_location,
     cabin_temperature_celsius |-> cabin_temperature_celsius,
     cabin_humidity_percent |-> cabin_humidity_percent,
     engine_temperature_celsius |-> engine_temperature_celsius,
     engine_humidity_percent |-> engine_humidity_percent,
     gas_type |-> gas_type,
     gas_concentration_ppm |-> gas_concentration_ppm,
     latitude |-> latitude,
     longitude |-> longitude,
     current_amperes |-> current_amperes,
     timestamp |-> IF NotNone(timestamp) THEN Val(timestamp) ELSE NowUtc,
     created_at |-> NowUtc]

has_cabin_temperature_reading(r) == NotNone(r.cabin_temperature_celsius)
has_cabin_humidity_reading(r) == NotNone(r.cabin_humidity_percent)
has_engine_temperature_reading(r) == NotNone(r.engine_temperature_celsius)
has_engine_humidity_reading(r) == NotNone(r.engine_humidity_percent)
has_gas_reading(r) == NotNone(r.gas_type) /\ NotNone(r.gas_concentration_ppm)
has_gps_reading(r) == NotNone(r.latitude) /\ NotNone(r.longitude)
\* the current tested for truth, not for None
has_current_reading_truthy(r) ==
    NotNone(r.current_amperes) /\ Val(r.current_amperes) # 0

has_current_reading(r) == NotNone(r.current_amperes)

\* a gas type alone counted as a sensor value
is_valid_any_gas_field(r) ==
    \/ has_cabin_temperature_reading(r)
    \/ has_cabin_humidity_reading(r)
    \/ has_engine_temperature_reading(r)
    \/ has_engine_humidity_reading(r)
    \/ NotNone(r.gas_type)
    \/ has_gps_reading(r)
    \/ has_current_reading(r)

is_valid(r) ==
    \/ has_cabin_temperature_reading(r)
    \/ has_cabin_humidity_reading(r)
    \/ has_engine_temperature_reading(r)
    \/ has_engine_humidity_reading(r)
    \/ has_gas_reading(r)
    \/ has_gps_reading(r)
    \/ has_current_reading(r)

(***************************************************************************)
(* SensorReadingService.create_sensor_reading                               *)
(* The result is the raised ValueError message or the returned reading.     *)
(***************************************************************************)
Raise(msg) == [ok |-> FALSE, error |-> msg, reading |-> None]
Return(r) == [ok |-> TRUE, error |-> "", reading |-> Some(r)]

\* lines 140-146: the parsed timestamp, None when the raw one is falsy
TimestampDt(timestamp) ==
    IF TruthyText(timestamp) /\ Parsable(Val(timestamp))
    THEN Some(ParseUtc(Val(timestamp)))
    ELSE None

\* lines 148-168: construction and the is_valid check
Construct(f) ==
    LET reading == SensorReading(
            Strip(f.device_id), f.vehicle_id, f.driver_id, f.sensor_location,
            f.cabin_temperature_celsius, f.cabin_humidity_percent,
            f.engine_temperature_celsius, f.engine_humidity_percent,
            IF Truthy(f.gas_type) THEN Some(Strip(Val(f.gas_type))) ELSE None,
            f.gas_concentration_ppm, f.latitude, f.longitude,
            f.current_amperes, TimestampDt(f.timestamp))
    IN  IF ~is_valid(reading)
        THEN Raise("At least one sensor reading must be provided")
        ELSE Return(reading)

\* the current checked against its lower limit only
CheckCurrentAndTimestampNoUpper(f) ==
    IF NotNone(f.current_amperes) /\ Val(f.current_amperes) < 0
    THEN Raise("Current must be between 0 and 5 Amperes")
    ELSE IF TruthyText(f.timestamp) /\ ~Parsable(Val(f.timestamp))
    THEN Raise("Invalid timestamp format. Use ISO 8601 format")
    ELSE Construct(f)

\* lines 135-146: current range, timestamp
CheckCurrentAndTimestamp(f) ==
    IF NotNone(f.current_amperes)
       /\ (Val(f.current_amperes) < 0 \/ Val(f.current_amperes) > 50)
    THEN Raise("Current must be between 0 and 5 Amperes")
    ELSE IF TruthyText(f.timestamp) /\ ~Parsable(Val(f.timestamp))
    THEN Raise("Invalid timestamp format. Use ISO 8601 format")
    ELSE Construct(f)

\* the pair test for a latitude without longitude only
CheckGpsLatitudeOnly(f) ==
    IF NotNone(f.latitude) /\ (Val(f.latitude) < -900 \/ Val(f.latitude) > 900)
    THEN Raise("Latitude must be between -90 and 90 degrees")
    ELSE IF NotNone(f.longitude)
            /\ (Val(f.longitude) < -1800 \/ Val(f.longitude) > 1800)
    THEN Raise("Longitude must be between -180 and 180 degrees")
    ELSE IF NotNone(f.latitude) /\ IsNone(f.longitude)
    THEN Raise("Latitude and longitude must be provided together")
    ELSE CheckCurrentAndTimestamp(f)

\* the pair test ahead of the two range tests
CheckGpsPairFirst(f) ==
    IF \/ (NotNone(f.latitude) /\ IsNone(f.longitude))
       \/ (IsNone(f.latitude) /\ NotNone(f.longitude))
    THEN Raise("Latitude and longitude must be provided together")
    ELSE IF NotNone(f.latitude)
            /\ (Val(f.latitude) < -900 \/ Val(f.latitude) > 900)
    THEN Raise("Latitude must be between -90 and 90 degrees")
    ELSE IF NotNone(f.longitude)
            /\ (Val(f.longitude) < -1800 \/ Val(f.longitude) > 1800)
    THEN Raise("Longitude must be between -180 and 180 degrees")
    ELSE CheckCurrentAndTimestamp(f)

\* lines 122-133: latitude, longitude, the pair
CheckGps(f) ==
    IF NotNone(f.latitude) /\ (Val(f.latitude) < -900 \/ Val(f.latitude) > 900)
    THEN Raise("Latitude must be between -90 and 90 degrees")
    ELSE IF NotNone(f.longitude)
            /\ (Val(f.longitude) < -1800 \/ Val(f.longitude) > 1800)
    THEN Raise("Longitude must be between -180 and 180 degrees")
    ELSE IF \/ (NotNone(f.latitude) /\ IsNone(f.longitude))
            \/ (IsNone(f.latitude) /\ NotNone(f.longitude))
    THEN Raise("Latitude and longitude must be provided together")
    ELSE CheckCurrentAndTimestamp(f)

\* the gas type tested for emptiness without stripping it
CheckGasNoStrip(f) ==
    IF NotNone(f.gas_concentration_ppm) /\ Val(f.gas_concentration_ppm) < 0
    THEN Raise("Gas concentration cannot be negative")
    ELSE IF NotNone(f.gas_concentration_ppm)
            /\ (IsNone(f.gas_type) \/ Val(f.gas_type) = <<>>)
    THEN Raise("Gas type is required when concentration is provided")
    ELSE CheckGps(f)

\* lines 115-120: gas concentration and its gas type
CheckGas(f) ==
    IF NotNone(f.gas_concentration_ppm) /\ Val(f.gas_concentration_ppm) < 0
    THEN Raise("Gas concentration cannot be negative")
    ELSE IF NotNone(f.gas_concentration_ppm)
            /\ (IsNone(f.gas_type) \/ Strip(Val(f.gas_type)) = <<>>)
    THEN Raise("Gas type is required when concentration is provided")
    ELSE CheckGps(f)

\* lines 96-113: temperature and humidity ranges
CheckTemperatureAndHumidity(f) ==
    IF NotNone(f.cabin_temperature_celsius)
       /\ (Val(f.cabin_temperature_celsius) < -400
           \/ Val(f.cabin_temperature_celsius) > 800)
    THEN Raise("Cabin temperature must be between -40C and 80C")
    ELSE IF NotNone(f.engine_temperature_celsius)
            /\ (Val(f.engine_temperature_celsius) < -400
                \/ Val(f.engine_temperature_celsius) > 1250)
    THEN Raise("Engine temperature must be between -40C and 125C")
    ELSE IF NotNone(f.cabin_humidity_percent)
            /\ (Val(f.cabin_humidity_percent) < 0
                \/ Val(f.cabin_humidity_percent) > 1000)
    THEN Raise("Cabin humidity must be between 0% and 100%")
    ELSE IF NotNone(f.engine_humidity_percent)
            /\ (Val(f.engine_humidity_percent) < 0
                \/ Val(f.engine_humidity_percent) > 1000)
    THEN Raise("Engine humidity must be between 0% and 100%")
    ELSE CheckGas(f)

\* lines 83-94: identifiers and sensor location, then the rest in order
create_sensor_reading(f) ==
    IF f.device_id = <<>> \/ Strip(f.device_id) = <<>>
    THEN Raise("Device ID cannot be empty")
    ELSE IF IsNone(f.vehicle_id) \/ Val(f.vehicle_id) <= 0
    THEN Raise("Vehicle ID must be a positive integer")
    ELSE IF IsNone(f.driver_id) \/ Val(f.driver_id) <= 0
    THEN Raise("Driver ID must be a positive integer")
    ELSE IF TruthyText(f.sensor_location)
            /\ Val(f.sensor_location) \notin {"CABINA", "MOTOR"}
    THEN Raise("Sensor location must be 'CABINA' or 'MOTOR'")
    ELSE CheckTemperatureAndHumidity(f)

(***************************************************************************)
(* SensorReadingService.determine_alert_severity, one operator per check   *)
(***************************************************************************)
\* lines 182-188
SeverityCabinTemperature(r, sev) ==
    IF has_cabin_temperature_reading(r)
    THEN LET temp == Val(r.cabin_temperature_celsius)
         IN  IF temp >= CABIN_TEMP_CRITICAL_HIGH \/ temp <= TEMP_WARNING_LOW
             THEN "CRITICAL"
             ELSE IF temp >= CABIN_TEMP_WARNING_HIGH THEN "WARNING" ELSE sev
    ELSE sev

\* the engine warning branch without its "not already CRITICAL" guard
SeverityEngineTemperatureUnguarded(r, sev) ==
    IF has_engine_temperature_reading(r)
    THEN LET temp == Val(r.engine_temperature_celsius)
         IN  IF temp >= ENGINE_TEMP_CRITICAL_HIGH
             THEN "CRITICAL"
             ELSE IF temp >= ENGINE_TEMP_WARNING_HIGH THEN "WARNING" ELSE sev
    ELSE sev

\* lines 190-196
SeverityEngineTemperature(r, sev) ==
    IF has_engine_temperature_reading(r)
    THEN LET temp == Val(r.engine_temperature_celsius)
         IN  IF temp >= ENGINE_TEMP_CRITICAL_HIGH
             THEN "CRITICAL"
             ELSE IF temp >= ENGINE_TEMP_WARNING_HIGH /\ sev # "CRITICAL"
             THEN "WARNING"
             ELSE sev
    ELSE sev

\* the low-humidity comparison strict instead of inclusive
SeverityHumidityStrictLow(humidity, sev) ==
    IF NotNone(humidity)
    THEN IF Val(humidity) >= HUMIDITY_CRITICAL_HIGH
         THEN IF sev # "CRITICAL" THEN "WARNING" ELSE sev
         ELSE IF Val(humidity) < HUMIDITY_WARNING_LOW /\ sev = "INFO"
         THEN "WARNING"
         ELSE sev
    ELSE sev

\* lines 200-205: the body of the loop over the two humidities
SeverityHumidity(humidity, sev) ==
    IF NotNone(humidity)
    THEN IF Val(humidity) >= HUMIDITY_CRITICAL_HIGH
         THEN IF sev # "CRITICAL" THEN "WARNING" ELSE sev
         ELSE IF Val(humidity) <= HUMIDITY_WARNING_LOW /\ sev = "INFO"
         THEN "WARNING"
         ELSE sev
    ELSE sev

\* lines 207-213
SeverityGas(r, sev) ==
    IF has_gas_reading(r)
    THEN LET gas_ppm == Val(r.gas_concentration_ppm)
         IN  IF gas_ppm >= GAS_CRITICAL_PPM
             THEN "CRITICAL"
             ELSE IF gas_ppm >= GAS_WARNING_PPM /\ sev # "CRITICAL"
             THEN "WARNING"
             ELSE sev
    ELSE sev

\* lines 215-222
SeverityCurrent(r, sev) ==
    IF has_current_reading(r)
    THEN LET current == Val(r.current_amperes)
         IN  IF current >= CURRENT_CRITICAL_HIGH \/ current <= CURRENT_WARNING_LOW
             THEN IF sev # "CRITICAL" THEN "WARNING" ELSE sev
             ELSE IF current >= CURRENT_WARNING_HIGH /\ sev = "INFO"
             THEN "WARNING"
             ELSE sev
    ELSE sev

\* the whole function: the checks in the order of the code, from INFO
determine_alert_severity(r) ==
    SeverityCurrent(r,
      SeverityGas(r,
        SeverityHumidity(r.engine_humidity_percent,
          SeverityHumidity(r.cabin_humidity_percent,
            SeverityEngineTemperature(r,
              SeverityCabinTemperature(r, "INFO"))))))

(***************************************************************************)
(* SensorReadingService.determine_telemetry_type                           *)
(***************************************************************************)
\* the default chain with the GPS test ahead of the gas test
DefaultTelemetryTypeGpsFirst(r) ==
    IF has_gps_reading(r) THEN "LOCATION_UPDATE"
    ELSE IF has_gas_reading(r) THEN "CABIN_GAS_DETECTED"
    ELSE IF has_engine_temperature_reading(r) \/ has_cabin_temperature_reading(r)
    THEN "TEMPERATURE_ANOMALY"
    ELSE IF has_current_reading(r) THEN "ELECTRICAL_FAULT"
    ELSE "GENERAL"

\* the default chain without its last return
DefaultTelemetryTypeNoFallback(r) ==
    IF has_gas_reading(r) THEN "CABIN_GAS_DETECTED"
    ELSE IF has_gps_reading(r) THEN "LOCATION_UPDATE"
    ELSE IF has_engine_temperature_reading(r) \/ has_cabin_temperature_reading(r)
    THEN "TEMPERATURE_ANOMALY"
    ELSE IF has_current_reading(r) THEN "ELECTRICAL_FAULT"
    ELSE "None"

\* lines 247-257
DefaultTelemetryType(r) ==
    IF has_gas_reading(r) THEN "CABIN_GAS_DETECTED"
    ELSE IF has_gps_reading(r) THEN "LOCATION_UPDATE"
    ELSE IF has_engine_temperature_reading(r) \/ has_cabin_temperature_reading(r)
    THEN "TEMPERATURE_ANOMALY"
    ELSE IF has_current_reading(r) THEN "ELECTRICAL_FAULT"
    ELSE "GENERAL"

\* the CRITICAL branch taken for every severity above INFO
determine_telemetry_type_any_alert(r) ==
    LET sev == determine_alert_severity(r)
    IN  IF sev # "INFO" /\ has_gas_reading(r) THEN "CABIN_GAS_DETECTED"
        ELSE IF sev # "INFO" /\ has_engine_temperature_reading(r)
        THEN "ENGINE_OVERHEAT"
        ELSE IF sev # "INFO" /\ has_current_reading(r)
        THEN "ELECTRICAL_FAULT"
        ELSE DefaultTelemetryType(r)

\* the CRITICAL branch testing the current before the engine temperature
determine_telemetry_type_current_first(r) ==
    LET sev == determine_alert_severity(r)
    IN  IF sev = "CRITICAL" /\ has_gas_reading(r) THEN "CABIN_GAS_DETECTED"
        ELSE IF sev = "CRITICAL" /\ has_current_reading(r)
        THEN "ELECTRICAL_FAULT"
        ELSE IF sev = "CRITICAL" /\ has_engine_temperature_reading(r)
        THEN "ENGINE_OVERHEAT"
        ELSE DefaultTelemetryType(r)

\* lines 236-257
determine_telemetry_type(r) ==
    LET sev == determine_alert_severity(r)
    IN  IF sev = "CRITICAL" /\ has_gas_reading(r) THEN "CABIN_GAS_DETECTED"
        ELSE IF sev = "CRITICAL" /\ has_engine_temperature_reading(r)
        THEN "ENGINE_OVERHEAT"
        ELSE IF sev = "CRITICAL" /\ has_current_reading(r)
        THEN "ELECTRICAL_FAULT"
        ELSE DefaultTelemetryType(r)

(***************************************************************************)
(* telemetry/infrastructure/external_services.py: the backend payload.      *)
(***************************************************************************)
UpperLetters == <<"A", "B", "C", "D", "E", "F", "G", "H", "I", "J", "K", "L", "M", "N", "O", "P", "Q", "R", "S", "T", "U", "V", "W", "X", "Y", "Z">>

LowerLetters == <<"a", "b", "c", "d", "e", "f", "g", "h", "i", "j", "k", "l", "m", "n", "o", "p", "q", "r", "s", "t", "u", "v", "w", "x", "y", "z">>

LowerChar(c) ==
    IF \E i \in 1..26 : UpperLetters[i] = c
    THEN LowerLetters[CHOOSE i \in 1..26 : UpperLetters[i] = c]
    ELSE c

\* str.lower()
Lower(s) == [i \in 1..Len(s) |-> LowerChar(s[i])]

Methane == <<"m", "e", "t", "h", "a", "n", "e">>
Propane == <<"p", "r", "o", "p", "a", "n", "e">>
Butane == <<"b", "u", "t", "a", "n", "e">>
Lpg == <<"l", "p", "g">>
Alcohol == <<"a", "l", "c", "o", "h", "o", "l">>
Hydrogen == <<"h", "y", "d", "r", "o", "g", "e", "n">>
Smoke == <<"s", "m", "o", "k", "e">>
Co == <<"c", "o">>
Co2 == <<"c", "o", "2">>

\* lines 128-138: the dict gas_type_mapping, and dict.get with a default
gas_type_mapping_get(key, default) ==
    IF key \in {Methane, Propane, Butane, Lpg, Alcohol, Hydrogen}
    THEN "FUEL_VAPOR"
    ELSE IF key = Smoke THEN "SMOKE"
    ELSE IF key = Co THEN "CO"
    ELSE IF key = Co2 THEN "CO2"
    ELSE default

\* the lookup without lowering the label
backend_gas_type_case_sensitive(r) == gas_type_mapping_get(Val(r.gas_type), "UNKNOWN")

\* lines 139-142
backend_gas_type(r) == gas_type_mapping_get(Lower(Val(r.gas_type)), "UNKNOWN")

\* datetime.isoformat() of the reading's timezone-aware UTC timestamp
isoformat(t) == [minute |-> t, offset |-> "+00:00"]

\* the keys without the electrical current
PayloadKeysNoCurrent(r) ==
    {"macAddress", "type", "severity", "timestamp"}
        \cup (IF has_cabin_temperature_reading(r) THEN {"cabinTemperature"} ELSE {})
        \cup (IF has_engine_temperature_reading(r) THEN {"engineTemperature"} ELSE {})
        \cup (IF has_cabin_humidity_reading(r) THEN {"cabinHumidity"} ELSE {})
        \cup (IF has_gas_reading(r) THEN {"cabinGasType", "cabinGasConcentration"} ELSE {})
        \cup (IF has_gps_reading(r) THEN {"latitude", "longitude"} ELSE {})

\* the keys the dict holds when _build_telemetry_payload returns
PayloadKeys(r) ==
    {"macAddress", "type", "severity", "timestamp"}
        \cup (IF has_cabin_temperature_reading(r) THEN {"cabinTemperature"} ELSE {})
        \cup (IF has_engine_temperature_reading(r) THEN {"engineTemperature"} ELSE {})
        \cup (IF has_cabin_humidity_reading(r) THEN {"cabinHumidity"} ELSE {})
        \cup (IF has_gas_reading(r) THEN {"cabinGasType", "cabinGasConcentration"} ELSE {})
        \cup (IF has_gps_reading(r) THEN {"latitude", "longitude"} ELSE {})
        \cup (IF has_current_reading(r) THEN {"electricalCurrent"} ELSE {})

\* the value assigned to each key
PayloadValue(k, r, type, sev) ==
    CASE k = "macAddress" -> r.device_id
      [] k = "type" -> type
      [] k = "severity" -> sev
      [] k = "timestamp" -> isoformat(r.timestamp)
      [] k = "cabinTemperature" -> Val(r.cabin_temperature_celsius)
      [] k = "engineTemperature" -> Val(r.engine_temperature_celsius)
      [] k = "cabinHumidity" -> Val(r.cabin_humidity_percent)
      [] k = "cabinGasType" -> backend_gas_type(r)
      [] k = "cabinGasConcentration" -> Val(r.gas_concentration_ppm)
      [] k = "latitude" -> Val(r.latitude)
      [] k = "longitude" -> Val(r.longitude)
      [] k = "electricalCurrent" -> Val(r.current_amperes)

\* lines 75-162
_build_telemetry_payload(r, type, sev) ==
    [k \in PayloadKeys(r) |-> PayloadValue(k, r, type, sev)]

(***************************************************************************)
(* Inputs                                                                   *)
(***************************************************************************)
Opt(S) == {None} \cup {Some(v) : v \in S}

Fields(device_ids, vehicle_ids, driver_ids, locations, cabin_temps, cabin_hums, engine_temps, engine_hums, gas_types, gas_ppms, latitudes, longitudes, currents, timestamps) ==
    [device_id : device_ids,
     vehicle_id : vehicle_ids,
     driver_id : driver_ids,
     sensor_location : locations,
     cabin_temperature_celsius : cabin_temps,
     cabin_humidity_percent : cabin_hums,
     engine_temperature_celsius : engine_temps,
     engine_humidity_percent : engine_hums,
     gas_type : gas_types,
     gas_concentration_ppm : gas_ppms,
     latitude : latitudes,
     longitude : longitudes,
     current_amperes : currents,
     timestamp : timestamps]

SafeCar001 == <<"s", "c", "1">>

\* The most whitespace put around a string of the inputs.
MaxPad == 1

Pad(n) == [i \in 1..n |-> " "]

\* Inputs of the validation runs: every field absent, valid (on a limit of
\* its range where it has one) or invalid, in every combination; strings
\* blank or padded with whitespace, the gas type also empty.
ValidateInputs ==
    Fields({Pad(MaxPad), Pad(MaxPad) \o SafeCar001 \o Pad(MaxPad)},
           {Some(0), Some(1)},
           {None, Some(1)},
           {None, Some(""), Some("CABINA"), Some("TRUNK")},
           Opt({-400, 801}),
           Opt({1000, 1001}),
           Opt({1250, 2000}),
           Opt({-1, 0}),
           Opt({<<>>, Pad(MaxPad), Pad(MaxPad) \o Methane}),
           Opt({-1, 0}),
           Opt({-901, 0}),
           Opt({-1800, 1801}),
           Opt({0, 51}),
           {None, Some(""), Some("not-a-date"),
            Some("2025-11-13T05:30:00-05:00")})

\* Inputs of the classification runs: valid identifiers, every sensor value
\* on either side of each threshold of determine_alert_severity.
ClassifyInputs ==
    Fields({SafeCar001}, {Some(1)}, {Some(1)}, {None},
           Opt({-100, -99, 399, 400, 499, 500, 550}),
           Opt({200, 201, 680, 899, 900}),
           Opt({949, 950, 985, 1099, 1100}),
           Opt({200, 201, 899, 900}),
           {None, Some(Methane)},
           Opt({9999, 10000, 12500, 49999, 50000}),
           Opt({-120}),
           Opt({-770}),
           Opt({5, 6, 39, 40, 43}),
           {None})

PropaneMixedCase == <<"P", "r", "o", "P", "a", "n", "e">>
SmokeUpperCase == <<"S", "M", "O", "K", "E">>
UnknownGas == <<"u", "n", "k", "n", "o", "w", "n", "g", "a", "s">>

GasLabels ==
    {Methane, PropaneMixedCase, Butane, Lpg, Alcohol, Hydrogen, Smoke,
     SmokeUpperCase, Co, Co2, UnknownGas}

\* Inputs of the payload runs: valid identifiers, every sensor field absent,
\* zero or a typical value, every gas label of the mapping table in some
\* letter case and one outside the table.
PayloadInputs ==
    Fields({SafeCar001}, {Some(1)}, {Some(1)}, {None},
           Opt({0, 285}),
           Opt({0, 680}),
           Opt({0, 985}),
           Opt({0}),
           Opt(GasLabels),
           Opt({0, 12500}),
           Opt({0, -120}),
           Opt({0, -770}),
           Opt({0, 43}),
           {None, Some("2025-11-13T10:30:00Z")})

(***************************************************************************)
(* State machine: one call of create_sensor_reading on the input, then,    *)
(* on the reading it returns, determine_alert_severity check by check,     *)
(* determine_telemetry_type and _build_telemetry_payload.                  *)
(***************************************************************************)
\* record_sensor_reading has neither returned nor raised
NoResponse == [raised |-> FALSE, error |-> "", value |-> None]

\* no call of AuthApplicationService made yet
NoCall == [op |-> "", device_id |-> <<>>, api_key |-> <<>>, raised |-> FALSE, error |-> "", value |-> None]

\* no HTTP request received and none answered
NoRequest == [path |-> "", device_id |-> None, api_key |-> None, data |-> None]

NoHttpResponse == [status_code |-> 0, error |-> "", data |-> None]

\* the services at rest: the device table and the reading table exist and no
\* request is being served
ServiceIdle ==
    /\ iam_call = NoCall
    /\ calls = 0
    /\ request = NoRequest
    /\ http_response = NoHttpResponse
    /\ first_request = FALSE
    /\ db_inits = 1
    /\ thread_pc = <<>>

InitWith(inputs) ==
    /\ input \in inputs
    /\ pc = "start"
    /\ result = [ok |-> FALSE, error |-> "", reading |-> None]
    /\ severity = ""
    /\ telemetry_type = ""
    /\ payload = None
    /\ api_key = <<>>
    /\ devices = {}
    /\ store = <<>>
    /\ sent = <<>>
    /\ backend_success = FALSE
    /\ response = NoResponse
    /\ ServiceIdle

InitValidate == InitWith(ValidateInputs)

InitClassify == InitWith(ClassifyInputs)

InitPayload == InitWith(PayloadInputs)

Init == InitValidate

reading == Val(result.reading)

Validate ==
    /\ pc = "start"
    /\ result' = create_sensor_reading(input)
    /\ pc' = IF result'.ok THEN "validated" ELSE "rejected"
    /\ UNCHANGED <<input, severity, telemetry_type, payload, record_state, service_state>>

\* line 180
SeverityStart ==
    /\ pc = "validated"
    /\ severity' = "INFO"
    /\ pc' = "cabin_temperature"
    /\ UNCHANGED <<input, result, telemetry_type, payload, record_state, service_state>>

CheckCabinTemperature ==
    /\ pc = "cabin_temperature"
    /\ severity' = SeverityCabinTemperature(reading, severity)
    /\ pc' = "engine_temperature"
    /\ UNCHANGED <<input, result, telemetry_type, payload, record_state, service_state>>

CheckEngineTemperature ==
    /\ pc = "engine_temperature"
    /\ severity' = SeverityEngineTemperature(reading, severity)
    /\ pc' = "cabin_humidity"
    /\ UNCHANGED <<input, result, telemetry_type, payload, record_state, service_state>>

\* line 199: the loop, first the cabin humidity, then the engine humidity
CheckHumidity ==
    /\ pc \in {"cabin_humidity", "engine_humidity"}
    /\ severity' = SeverityHumidity(
                        IF pc = "cabin_humidity"
                        THEN reading.cabin_humidity_percent
                        ELSE reading.engine_humidity_percent, severity)
    /\ pc' = IF pc = "cabin_humidity" THEN "engine_humidity" ELSE "gas"
    /\ UNCHANGED <<input, result, telemetry_type, payload, record_state, service_state>>

CheckGasConcentration ==
    /\ pc = "gas"
    /\ severity' = SeverityGas(reading, severity)
    /\ pc' = "current"
    /\ UNCHANGED <<input, result, telemetry_type, payload, record_state, service_state>>

\* lines 215-224: the last check and the return
CheckCurrent ==
    /\ pc = "current"
    /\ severity' = SeverityCurrent(reading, severity)
    /\ pc' = "severity_returned"
    /\ UNCHANGED <<input, result, telemetry_type, payload, record_state, service_state>>

TelemetryType ==
    /\ pc = "severity_returned"
    /\ telemetry_type' = determine_telemetry_type(reading)
    /\ pc' = "classified"
    /\ UNCHANGED <<input, result, severity, payload, record_state, service_state>>

\* _build_telemetry_payload on the reading, its type and its severity
BuildPayload ==
    /\ pc = "classified"
    /\ payload' = Some(_build_telemetry_payload(reading, telemetry_type, severity))
    /\ pc' = "mapped"
    /\ UNCHANGED <<input, result, severity, telemetry_type, record_state, service_state>>

Next ==
    \/ Validate
    \/ SeverityStart
    \/ CheckCabinTemperature
    \/ CheckEngineTemperature
    \/ CheckHumidity
    \/ CheckGasConcentration
    \/ CheckCurrent
    \/ TelemetryType
    \/ BuildPayload

Spec == InitValidate /\ [][Next]_vars

SpecClassify == InitClassify /\ [][Next]_vars

SpecPayload == InitPayload /\ [][Next]_vars

(***************************************************************************)
(* telemetry/application/services.py: one call of record_sensor_reading,   *)
(* step by step: the device lookup, create_sensor_reading, the repository   *)
(* save, the classification, send_telemetry_sample and the return.          *)
(***************************************************************************)
TestApiKey == <<"t", "e", "s", "t", "-", "k", "e", "y">>

WrongApiKey == <<"w", "r", "o", "n", "g", "-", "k", "e", "y">>

\* the device table when the call starts
RegisteredDevices == {[device_id |-> SafeCar001, api_key |-> TestApiKey, created_at |-> NowUtc]}

\* the lookup by device id alone
get_device_by_id(device_id, key) ==
    LET found == {d \in devices : d.device_id = device_id}
    IN  IF found = {} THEN None ELSE Some(CHOOSE d \in found : TRUE)

\* iam: DeviceRepository.find_by_id_and_api_key, an exact match on both
get_device_by_id_and_api_key(device_id, key) ==
    LET found == {d \in devices : d.device_id = device_id /\ d.api_key = key}
    IN  IF found = {} THEN None ELSE Some(CHOOSE d \in found : TRUE)

\* what requests.post does: it returns a response or raises
HttpResponse(code) == [kind |-> "response", status_code |-> code]
Raised(kind) == [kind |-> kind, status_code |-> 0]

PostOutcomes ==
    {HttpResponse(200), HttpResponse(201), HttpResponse(400), HttpResponse(500),
     Raised("Timeout"), Raised("ConnectionError"), Raised("Exception")}

\* every 2xx status taken for a success
send_telemetry_sample_any_2xx(outcome) ==
    IF outcome.kind = "response"
    THEN 200 <= outcome.status_code /\ outcome.status_code <= 299
    ELSE FALSE

\* lines 47-73: True for status 201, False for any other status and for
\* every exception (both except clauses return False)
send_telemetry_sample(outcome) ==
    IF outcome.kind = "response"
    THEN outcome.status_code = 201
    ELSE FALSE

\* SensorReadingRepository.save: the row gets the next id
save(r) == [r EXCEPT !.id = Some(Len(store) + 1)]

saved_reading == store[Len(store)]

RaiseValueError(msg) == [raised |-> TRUE, error |-> msg, value |-> None]

\* lines 108-117
ResultDict ==
    [id |-> Val(saved_reading.id),
     device_id |-> saved_reading.device_id,
     sensor_location |-> saved_reading.sensor_location,
     timestamp |-> [iso |-> isoformat(saved_reading.timestamp), suffix |-> "Z"],
     severity |-> severity,
     telemetry_type |-> telemetry_type,
     backend_synced |-> backend_success,
     created_at |-> [iso |-> isoformat(saved_reading.created_at), suffix |-> "Z"]]

UnknownDevice == <<"x", "9">>

\* Inputs of the record runs: a registered device id (also padded) or an
\* unknown one, typical sensor values, an out-of-range engine temperature and
\* an unparsable timestamp.
RecordInputs ==
    Fields({SafeCar001, Pad(MaxPad) \o SafeCar001, UnknownDevice},
           {None}, {None},
           {None, Some("MOTOR")},
           Opt({285, 550}),
           Opt({680}),
           Opt({985, 2000}),
           {None},
           {None, Some(Methane)},
           Opt({12500}),
           Opt({-120}),
           Opt({-770}),
           Opt({43}),
           {None, Some("2025-11-13T10:30:00Z"), Some("not-a-date")})

InitRecord ==
    /\ input \in RecordInputs
    /\ api_key \in {TestApiKey, WrongApiKey}
    /\ devices = RegisteredDevices
    /\ pc = "record_start"
    /\ result = [ok |-> FALSE, error |-> "", reading |-> None]
    /\ severity = ""
    /\ telemetry_type = ""
    /\ payload = None
    /\ store = <<>>
    /\ sent = <<>>
    /\ backend_success = FALSE
    /\ response = NoResponse
    /\ ServiceIdle

\* lines 68-70
GetDevice ==
    /\ pc = "record_start"
    /\ IF NotNone(get_device_by_id_and_api_key(input.device_id, api_key))
       THEN pc' = "device_found" /\ response' = response
       ELSE /\ pc' = "raised"
            /\ response' = RaiseValueError("Device not found or invalid API key")
    /\ UNCHANGED <<input, result, severity, telemetry_type, payload, api_key, devices, store, sent, backend_success, service_state>>

\* lines 73-92: vehicle and driver id are 1
CreateReading ==
    /\ pc = "device_found"
    /\ result' = create_sensor_reading(
                    [input EXCEPT !.vehicle_id = Some(1), !.driver_id = Some(1)])
    /\ IF result'.ok
       THEN pc' = "reading_created" /\ response' = response
       ELSE pc' = "raised" /\ response' = RaiseValueError(result'.error)
    /\ UNCHANGED <<input, severity, telemetry_type, payload, api_key, devices, store, sent, backend_success, service_state>>

\* line 95
SaveReading ==
    /\ pc = "reading_created"
    /\ store' = Append(store, save(reading))
    /\ pc' = "saved"
    /\ UNCHANGED <<input, result, severity, telemetry_type, payload, api_key, devices, sent, backend_success, response, service_state>>

\* lines 98-99
ClassifyReading ==
    /\ pc = "saved"
    /\ severity' = determine_alert_severity(reading)
    /\ telemetry_type' = determine_telemetry_type(reading)
    /\ pc' = "record_classified"
    /\ UNCHANGED <<input, result, payload, record_state, service_state>>

\* a failed POST sent a second time
SendTelemetryWithRetry ==
    /\ pc = "record_classified"
    /\ \E outcome \in PostOutcomes, second \in PostOutcomes :
          LET built == _build_telemetry_payload(saved_reading, telemetry_type, severity)
              first == [payload |-> built, outcome |-> outcome]
          IN  /\ payload' = Some(built)
              /\ sent' = IF send_telemetry_sample(outcome)
                         THEN Append(sent, first)
                         ELSE Append(Append(sent, first), [payload |-> built, outcome |-> second])
              /\ backend_success' = send_telemetry_sample(outcome) \/ send_telemetry_sample(second)
    /\ pc' = "sent"
    /\ UNCHANGED <<input, result, severity, telemetry_type, api_key, devices, store, response, service_state>>

\* the type sent computed without the severity
SendTelemetryDefaultType ==
    /\ pc = "record_classified"
    /\ \E outcome \in PostOutcomes :
          /\ payload' = Some(_build_telemetry_payload(saved_reading, DefaultTelemetryType(saved_reading), severity))
          /\ sent' = Append(sent, [payload |-> Val(payload'), outcome |-> outcome])
          /\ backend_success' = send_telemetry_sample(outcome)
    /\ pc' = "sent"
    /\ UNCHANGED <<input, result, severity, telemetry_type, api_key, devices, store, response, service_state>>

\* lines 102-106: the payload is built from the saved reading and posted;
\* the backend answers or the request raises
SendTelemetry ==
    /\ pc = "record_classified"
    /\ \E outcome \in PostOutcomes :
          /\ payload' = Some(_build_telemetry_payload(saved_reading, telemetry_type, severity))
          /\ sent' = Append(sent, [payload |-> Val(payload'), outcome |-> outcome])
          /\ backend_success' = send_telemetry_sample(outcome)
    /\ pc' = "sent"
    /\ UNCHANGED <<input, result, severity, telemetry_type, api_key, devices, store, response, service_state>>

\* lines 108-117
ReturnResult ==
    /\ pc = "sent"
    /\ response' = [raised |-> FALSE, error |-> "", value |-> Some(ResultDict)]
    /\ pc' = "returned"
    /\ UNCHANGED <<input, result, severity, telemetry_type, payload, api_key, devices, store, sent, backend_success, service_state>>

NextRecord ==
    \/ GetDevice
    \/ CreateReading
    \/ SaveReading
    \/ ClassifyReading
    \/ SendTelemetry
    \/ ReturnResult

SpecRecord == InitRecord /\ [][NextRecord]_vars

(***************************************************************************)
(* Properties of determine_alert_severity and determine_telemetry_type     *)
(***************************************************************************)
Rank(sev) ==
    CASE sev = "INFO" -> 0
      [] sev = "WARNING" -> 1
      [] sev = "CRITICAL" -> 2
      [] OTHER -> -1

SeverityPcs ==
    {"cabin_temperature", "engine_temperature", "cabin_humidity",
     "engine_humidity", "gas", "current", "severity_returned", "classified",
     "mapped"}

Returned == pc \in {"severity_returned", "classified", "mapped"}

\* C1: while determine_alert_severity applies its checks in sequence the
\* running severity never decreases, and the severity the function returns
\* is at least the running severity after every check: once a check has set
\* CRITICAL the result is CRITICAL, once one has set WARNING the result is
\* WARNING or CRITICAL.
C1_SeverityNeverDecreases ==
    /\ [][(pc \in SeverityPcs /\ pc' \in SeverityPcs)
            => Rank(severity') >= Rank(severity)]_vars
    /\ [](pc \in SeverityPcs
            => /\ Rank(severity) >= 0
               /\ Rank(determine_alert_severity(reading)) >= Rank(severity))

\* the cabin temperature has set CRITICAL, later checks met their WARNING
\* conditions, and CRITICAL is returned
C1_Witness ==
    /\ pc = "severity_returned"
    /\ severity = "CRITICAL"
    /\ reading.cabin_temperature_celsius = Some(500)
    /\ reading.engine_temperature_celsius = Some(950)
    /\ reading.cabin_humidity_percent = Some(200)
    /\ reading.engine_humidity_percent = Some(900)
    /\ reading.gas_concentration_ppm = Some(10000)
    /\ reading.current_amperes = Some(40)

\* The level each rule gives on its own field, as ranks
LevelCabinTemperature(t) ==
    IF IsNone(t) THEN 0
    ELSE IF Val(t) >= 500 \/ Val(t) <= -100 THEN 2
    ELSE IF Val(t) >= 400 THEN 1 ELSE 0

LevelEngineTemperature(t) ==
    IF IsNone(t) THEN 0
    ELSE IF Val(t) >= 1100 THEN 2
    ELSE IF Val(t) >= 950 THEN 1 ELSE 0

LevelHumidity(h) ==
    IF IsNone(h) THEN 0
    ELSE IF Val(h) >= 900 \/ Val(h) <= 200 THEN 1 ELSE 0

LevelGas(g) ==
    IF IsNone(g) THEN 0
    ELSE IF Val(g) >= 50000 THEN 2
    ELSE IF Val(g) >= 10000 THEN 1 ELSE 0

LevelCurrent(c) ==
    IF IsNone(c) THEN 0
    ELSE IF Val(c) >= 40 \/ Val(c) <= 5 THEN 1 ELSE 0

RuleLevels(r) ==
    {LevelCabinTemperature(r.cabin_temperature_celsius),
     LevelEngineTemperature(r.engine_temperature_celsius),
     LevelHumidity(r.cabin_humidity_percent),
     LevelHumidity(r.engine_humidity_percent),
     LevelGas(r.gas_concentration_ppm),
     LevelCurrent(r.current_amperes)}

MaxLevel(r) == CHOOSE m \in RuleLevels(r) : \A l \in RuleLevels(r) : l <= m

ScenarioA(f) ==
    /\ f.cabin_temperature_celsius = Some(550)
    /\ f.cabin_humidity_percent = Some(680)
    /\ f.gas_type = Some(Methane)
    /\ f.gas_concentration_ppm = Some(12500)
    /\ f.latitude = Some(-120)
    /\ f.longitude = Some(-770)

\* C3: for a validated reading of severity CRITICAL the type is
\* CABIN_GAS_DETECTED if a gas pair is present, otherwise ENGINE_OVERHEAT if
\* an engine temperature is present, otherwise ELECTRICAL_FAULT if a current
\* is present; cabin temperature 55 with methane at 1250 ppm and a GPS pair is
\* CRITICAL and CABIN_GAS_DETECTED.
C3_CriticalTelemetryType ==
    /\ (pc = "classified" /\ severity = "CRITICAL") =>
          IF NotNone(reading.gas_type) /\ NotNone(reading.gas_concentration_ppm)
          THEN telemetry_type = "CABIN_GAS_DETECTED"
          ELSE IF NotNone(reading.engine_temperature_celsius)
          THEN telemetry_type = "ENGINE_OVERHEAT"
          ELSE NotNone(reading.current_amperes)
                  => telemetry_type = "ELECTRICAL_FAULT"
    /\ (pc = "classified" /\ ScenarioA(input)) =>
          /\ severity = "CRITICAL"
          /\ telemetry_type = "CABIN_GAS_DETECTED"

C3_Witness ==
    /\ pc = "classified"
    /\ ScenarioA(input)
    /\ IsNone(input.engine_temperature_celsius)
    /\ telemetry_type = "CABIN_GAS_DETECTED"

\* C4: for a validated reading of severity INFO or WARNING the type is the
\* first match of: gas pair -> CABIN_GAS_DETECTED; latitude and longitude ->
\* LOCATION_UPDATE; engine or cabin temperature -> TEMPERATURE_ANOMALY;
\* current -> ELECTRICAL_FAULT; otherwise GENERAL.
C4_FallbackTelemetryType ==
    (pc = "classified" /\ severity \in {"INFO", "WARNING"}) =>
        telemetry_type =
            IF NotNone(reading.gas_type) /\ NotNone(reading.gas_concentration_ppm)
            THEN "CABIN_GAS_DETECTED"
            ELSE IF NotNone(reading.latitude) /\ NotNone(reading.longitude)
            THEN "LOCATION_UPDATE"
            ELSE IF \/ NotNone(reading.engine_temperature_celsius)
                    \/ NotNone(reading.cabin_temperature_celsius)
            THEN "TEMPERATURE_ANOMALY"
            ELSE IF NotNone(reading.current_amperes)
            THEN "ELECTRICAL_FAULT"
            ELSE "GENERAL"

\* a WARNING reading with a gas pair, a GPS pair, a temperature and a current
C4_Witness ==
    /\ pc = "classified"
    /\ severity = "WARNING"
    /\ has_gas_reading(reading)
    /\ has_gps_reading(reading)
    /\ has_cabin_temperature_reading(reading)
    /\ has_current_reading(reading)
    /\ telemetry_type = "CABIN_GAS_DETECTED"

ScenarioB(f) ==
    /\ f.engine_temperature_celsius = Some(985)
    /\ f.current_amperes = Some(43)
    /\ IsNone(f.gas_concentration_ppm)
    /\ IsNone(f.latitude)
    /\ IsNone(f.longitude)

\* C5: ENGINE_OVERHEAT is returned only for CRITICAL readings; an INFO or
\* WARNING reading with an engine temperature and no gas or GPS pair, with or
\* without a current, is TEMPERATURE_ANOMALY; engine temperature 98.5 with
\* current 4.3 gives WARNING and TEMPERATURE_ANOMALY.
C5_EngineOverheatOnlyCritical ==
    /\ (pc = "classified" /\ telemetry_type = "ENGINE_OVERHEAT")
          => severity = "CRITICAL"
    /\ (/\ pc = "classified"
        /\ severity \in {"INFO", "WARNING"}
        /\ NotNone(reading.engine_temperature_celsius)
        /\ ~has_gas_reading(reading)
        /\ ~has_gps_reading(reading))
          => telemetry_type = "TEMPERATURE_ANOMALY"
    /\ (/\ pc = "classified"
        /\ ScenarioB(input)
        /\ IsNone(input.cabin_temperature_celsius)
        /\ IsNone(input.cabin_humidity_percent)
        /\ IsNone(input.engine_humidity_percent))
          => severity = "WARNING" /\ telemetry_type = "TEMPERATURE_ANOMALY"

C5_Witness ==
    /\ pc = "classified"
    /\ ScenarioB(input)
    /\ IsNone(input.cabin_temperature_celsius)
    /\ IsNone(input.cabin_humidity_percent)
    /\ IsNone(input.engine_humidity_percent)
    /\ severity = "WARNING"
    /\ telemetry_type = "TEMPERATURE_ANOMALY"

(***************************************************************************)
(* Properties of create_sensor_reading                                      *)
(***************************************************************************)
NumericFields ==
    {"cabin_temperature_celsius", "engine_temperature_celsius",
     "cabin_humidity_percent", "engine_humidity_percent",
     "gas_concentration_ppm", "latitude", "longitude", "current_amperes"}

\* the domain of each numeric field in the data model, in tenths
InDomain(k, v) ==
    CASE k = "cabin_temperature_celsius" -> -400 <= v /\ v <= 800
      [] k = "engine_temperature_celsius" -> -400 <= v /\ v <= 1250
      [] k = "cabin_humidity_percent" -> 0 <= v /\ v <= 1000
      [] k = "engine_humidity_percent" -> 0 <= v /\ v <= 1000
      [] k = "gas_concentration_ppm" -> 0 <= v
      [] k = "latitude" -> -900 <= v /\ v <= 900
      [] k = "longitude" -> -1800 <= v /\ v <= 1800
      [] k = "current_amperes" -> 0 <= v /\ v <= 50

OutOfRangeMessage(k) ==
    CASE k = "cabin_temperature_celsius" ->
            "Cabin temperature must be between -40C and 80C"
      [] k = "engine_temperature_celsius" ->
            "Engine temperature must be between -40C and 125C"
      [] k = "cabin_humidity_percent" ->
            "Cabin humidity must be between 0% and 100%"
      [] k = "engine_humidity_percent" ->
            "Engine humidity must be between 0% and 100%"
      [] k = "gas_concentration_ppm" -> "Gas concentration cannot be negative"
      [] k = "latitude" -> "Latitude must be between -90 and 90 degrees"
      [] k = "longitude" -> "Longitude must be between -180 and 180 degrees"
      [] k = "current_amperes" -> "Current must be between 0 and 5 Amperes"

MissingDependentField == "Gas type is required when concentration is provided"
IncompleteCoordinatePair == "Latitude and longitude must be provided together"
InvalidTimestamp == "Invalid timestamp format. Use ISO 8601 format"
EmptyReading == "At least one sensor reading must be provided"

OutOfRange(f, k) == NotNone(f[k]) /\ ~InDomain(k, Val(f[k]))

OutOfRangeFields(f) == {k \in NumericFields : OutOfRange(f, k)}

DeviceIdBlank(f) == Strip(f.device_id) = <<>>
VehicleIdInvalid(f) == IsNone(f.vehicle_id) \/ Val(f.vehicle_id) <= 0
DriverIdInvalid(f) == IsNone(f.driver_id) \/ Val(f.driver_id) <= 0

IdentifiersValid(f) ==
    ~DeviceIdBlank(f) /\ ~VehicleIdInvalid(f) /\ ~DriverIdInvalid(f)

\* An empty string counts as an absent sensor location and an absent raw
\* timestamp here.
LocationInvalid(f) ==
    /\ NotNone(f.sensor_location)
    /\ Val(f.sensor_location) \notin {"", "CABINA", "MOTOR"}

TimestampInvalid(f) ==
    /\ NotNone(f.timestamp)
    /\ Val(f.timestamp) # ""
    /\ ~Parsable(Val(f.timestamp))

GasTypeMissing(f) ==
    /\ NotNone(f.gas_concentration_ppm)
    /\ (IsNone(f.gas_type) \/ Strip(Val(f.gas_type)) = <<>>)

GasTypeAlone(f) ==
    /\ IsNone(f.gas_concentration_ppm)
    /\ NotNone(f.gas_type)
    /\ Strip(Val(f.gas_type)) # <<>>

PairIncomplete(f) == IsNone(f.latitude) # IsNone(f.longitude)

OtherSensorField(f) ==
    \/ NotNone(f.cabin_temperature_celsius)
    \/ NotNone(f.cabin_humidity_percent)
    \/ NotNone(f.engine_temperature_celsius)
    \/ NotNone(f.engine_humidity_percent)
    \/ NotNone(f.latitude) /\ NotNone(f.longitude)
    \/ NotNone(f.current_amperes)

NoSensorField(f) ==
    /\ ~OtherSensorField(f)
    /\ ~(NotNone(f.gas_type) /\ NotNone(f.gas_concentration_ppm))

Called == pc # "start"

Rejected == pc = "rejected" /\ ~result.ok /\ IsNone(result.reading)

C7_EitherGasFieldAloneRejected ==
    (/\ Called
     /\ IdentifiersValid(input)
     /\ ~LocationInvalid(input)
     /\ OutOfRangeFields(input) = {}
     /\ (GasTypeMissing(input) \/ GasTypeAlone(input)))
       => Rejected /\ result.error = MissingDependentField

\* C7 amended: with valid identifiers and sensor location and in-range
\* numeric fields, a concentration without a non-blank gas type always fails
\* with MissingDependentField; a gas type without a concentration never
\* raises that error, and the call succeeds when the other rules pass and
\* another sensor field is present, the reading keeping the gas type without
\* a gas pair.
C7_ConcentrationNeedsGasType ==
    /\ (/\ Called
        /\ IdentifiersValid(input)
        /\ ~LocationInvalid(input)
        /\ OutOfRangeFields(input) = {}
        /\ GasTypeMissing(input))
          => Rejected /\ result.error = MissingDependentField
    /\ (Called /\ IsNone(input.gas_concentration_ppm))
          => result.error # MissingDependentField
    /\ (/\ Called
        /\ IdentifiersValid(input)
        /\ ~LocationInvalid(input)
        /\ OutOfRangeFields(input) = {}
        /\ GasTypeAlone(input)
        /\ ~PairIncomplete(input)
        /\ ~TimestampInvalid(input)
        /\ OtherSensorField(input))
          => /\ result.ok
             /\ reading.gas_type = Some(Strip(Val(input.gas_type)))
             /\ ~has_gas_reading(reading)

\* a concentration with a blank gas type, beside a valid current
C7_Witness ==
    /\ Rejected
    /\ IdentifiersValid(input)
    /\ input.gas_concentration_ppm = Some(0)
    /\ input.gas_type = Some(Pad(MaxPad))
    /\ input.current_amperes = Some(0)
    /\ OutOfRangeFields(input) = {}
    /\ result.error = MissingDependentField

\* C8: an input with exactly one of latitude and longitude is rejected; when
\* that is its only defect up to the pair test (identifiers, sensor location,
\* temperatures, humidities, gas and the given coordinate are valid) the error
\* is IncompleteCoordinatePair; every reading returned has a latitude if and
\* only if it has a longitude.
C8_IncompletePairRejected ==
    /\ (Called /\ PairIncomplete(input)) => Rejected
    /\ (/\ Called
        /\ PairIncomplete(input)
        /\ IdentifiersValid(input)
        /\ ~LocationInvalid(input)
        /\ OutOfRangeFields(input) \subseteq {"current_amperes"}
        /\ ~GasTypeMissing(input))
          => result.error = IncompleteCoordinatePair
    /\ result.ok => (NotNone(reading.latitude) <=> NotNone(reading.longitude))

\* a longitude without a latitude
C8_Witness ==
    /\ Rejected
    /\ IsNone(input.latitude)
    /\ input.longitude = Some(-1800)
    /\ result.error = IncompleteCoordinatePair

\* C9: every reading returned carries a temperature, a humidity, a complete
\* gas pair, a complete GPS pair or a current; an input with valid
\* identifiers (sensor location and timestamp absent or valid) and no
\* sensor field at all fails with EmptyReading.
C9_AtLeastOneSensorField ==
    /\ result.ok =>
          \/ NotNone(reading.cabin_temperature_celsius)
          \/ NotNone(reading.engine_temperature_celsius)
          \/ NotNone(reading.cabin_humidity_percent)
          \/ NotNone(reading.engine_humidity_percent)
          \/ NotNone(reading.gas_type) /\ NotNone(reading.gas_concentration_ppm)
          \/ NotNone(reading.latitude) /\ NotNone(reading.longitude)
          \/ NotNone(reading.current_amperes)
    /\ (/\ Called
        /\ IdentifiersValid(input)
        /\ ~LocationInvalid(input)
        /\ ~TimestampInvalid(input)
        /\ ~OtherSensorField(input)
        /\ IsNone(input.latitude)
        /\ IsNone(input.longitude)
        /\ IsNone(input.gas_type)
        /\ IsNone(input.gas_concentration_ppm))
          => Rejected /\ result.error = EmptyReading

C9_Witness ==
    /\ Rejected
    /\ IdentifiersValid(input)
    /\ IsNone(input.sensor_location)
    /\ IsNone(input.timestamp)
    /\ ~OtherSensorField(input)
    /\ IsNone(input.latitude)
    /\ IsNone(input.longitude)
    /\ IsNone(input.gas_type)
    /\ IsNone(input.gas_concentration_ppm)
    /\ result.error = EmptyReading

\* The rules of validation: whether the input violates the rule, and the
\* errors that report it.
Rule(violated, errors) == [violated |-> violated, errors |-> errors]

RuleDeviceId(f) == Rule(DeviceIdBlank(f), {"Device ID cannot be empty"})

RuleVehicleId(f) ==
    Rule(VehicleIdInvalid(f), {"Vehicle ID must be a positive integer"})

RuleDriverId(f) ==
    Rule(DriverIdInvalid(f), {"Driver ID must be a positive integer"})

RuleSensorLocation(f) ==
    Rule(LocationInvalid(f), {"Sensor location must be 'CABINA' or 'MOTOR'"})

RuleRange(f, ks) ==
    Rule(\E k \in ks : OutOfRange(f, k),
         {OutOfRangeMessage(k) : k \in {x \in ks : OutOfRange(f, x)}})

RuleGasType(f) == Rule(GasTypeMissing(f), {MissingDependentField})
RulePair(f) == Rule(PairIncomplete(f), {IncompleteCoordinatePair})
RuleTimestamp(f) == Rule(TimestampInvalid(f), {InvalidTimestamp})
RuleEmpty(f) == Rule(NoSensorField(f), {EmptyReading})

\* The nine rules in the stated order.
StatedRules(f) ==
    << RuleDeviceId(f), RuleVehicleId(f), RuleDriverId(f),
       RuleSensorLocation(f), RuleRange(f, NumericFields), RuleGasType(f),
       RulePair(f), RuleTimestamp(f), RuleEmpty(f) >>

\* The same rules with the range rule split where the code interleaves it.
AmendedRules(f) ==
    << RuleDeviceId(f), RuleVehicleId(f), RuleDriverId(f),
       RuleSensorLocation(f),
       RuleRange(f, {"cabin_temperature_celsius"}),
       RuleRange(f, {"engine_temperature_celsius"}),
       RuleRange(f, {"cabin_humidity_percent"}),
       RuleRange(f, {"engine_humidity_percent"}),
       RuleRange(f, {"gas_concentration_ppm"}),
       RuleGasType(f),
       RuleRange(f, {"latitude"}),
       RuleRange(f, {"longitude"}),
       RulePair(f),
       RuleRange(f, {"current_amperes"}),
       RuleTimestamp(f), RuleEmpty(f) >>

\* the call reports the earliest violated rule of the list
ReportsEarliest(rules) ==
    LET rs == rules
        violated == {i \in 1..Len(rs) : rs[i].violated}
    IN  violated # {} =>
            LET first == CHOOSE i \in violated : \A j \in violated : i <= j
            IN  Rejected /\ result.error \in rs[first].errors

SensorLocations == {"CABINA", "MOTOR"}

InvalidEnum == "Sensor location must be 'CABINA' or 'MOTOR'"

\* C11 as stated: with valid identifiers, every present sensor location that
\* is not one of the two allowed values is rejected with InvalidEnum, and
\* every reading returned has a sensor location that is absent or one of the
\* two allowed values.
C11_InvalidLocationRejected ==
    /\ (/\ Called
        /\ IdentifiersValid(input)
        /\ NotNone(input.sensor_location)
        /\ Val(input.sensor_location) \notin SensorLocations)
          => Rejected /\ result.error = InvalidEnum
    /\ result.ok =>
          \/ IsNone(reading.sensor_location)
          \/ Val(reading.sensor_location) \in SensorLocations

Trimmed(s) == s # <<>> /\ ~IsSpace(s[1]) /\ ~IsSpace(s[Len(s)])

\* C12 as stated: in every reading returned the device id is non-empty
\* without surrounding whitespace, and the gas type is either absent or a
\* non-empty string without surrounding whitespace, never the empty string.
C12_StringsTrimmedNonEmpty ==
    result.ok =>
        /\ Trimmed(reading.device_id)
        /\ IsNone(reading.gas_type) \/ Trimmed(Val(reading.gas_type))

TimestampUnparsable(f) ==
    NotNone(f.timestamp) /\ ~Parsable(Val(f.timestamp))

\* C13 as stated: every raw timestamp that is present and cannot be parsed
\* makes the call fail without a reading, with InvalidTimestamp when the
\* earlier rules pass; a reading returned for a present raw timestamp holds
\* its parsed UTC time, and only an absent one gives the current UTC time.
C13_UnparsableTimestampRejected ==
    /\ (Called /\ TimestampUnparsable(input)) => Rejected
    /\ (/\ Called
        /\ TimestampUnparsable(input)
        /\ IdentifiersValid(input)
        /\ ~LocationInvalid(input)
        /\ OutOfRangeFields(input) = {}
        /\ ~GasTypeMissing(input)
        /\ ~PairIncomplete(input))
          => result.error = InvalidTimestamp
    /\ (result.ok /\ NotNone(input.timestamp)) =>
          /\ Parsable(Val(input.timestamp))
          /\ reading.timestamp # NowUtc
    /\ (result.ok /\ IsNone(input.timestamp)) => reading.timestamp = NowUtc

GasPairComplete(f) ==
    /\ NotNone(f.gas_concentration_ppm)
    /\ NotNone(f.gas_type)
    /\ Strip(Val(f.gas_type)) # <<>>

GasPairAbsent(f) == IsNone(f.gas_concentration_ppm) /\ IsNone(f.gas_type)

SatisfiesDataModel(f) ==
    /\ IdentifiersValid(f)
    /\ IsNone(f.sensor_location) \/ Val(f.sensor_location) \in SensorLocations
    /\ OutOfRangeFields(f) = {}
    /\ GasPairComplete(f) \/ GasPairAbsent(f)
    /\ ~PairIncomplete(f)
    /\ ~NoSensorField(f)
    /\ IsNone(f.timestamp) \/ Parsable(Val(f.timestamp))

\* the instant a parsable raw timestamp denotes, in UTC
UtcInstant(s) ==
    IF s = "2025-11-13T10:30:00Z" THEN 630
    ELSE IF s = "2025-11-13T05:30:00-05:00" THEN 630
    ELSE -1

\* C14: the call succeeds for every input that satisfies the data model; the
\* reading returned holds every numeric sensor field exactly as given, the
\* gas type and device id trimmed, the identifiers and sensor location as
\* given, and the instant of the raw timestamp (the current time if absent).
C14_ValidInputAccepted ==
    (Called /\ SatisfiesDataModel(input)) =>
        /\ pc # "rejected"
        /\ result.ok
        /\ \A k \in NumericFields : reading[k] = input[k]
        /\ reading.gas_type =
              IF IsNone(input.gas_type) THEN None
              ELSE Some(Strip(Val(input.gas_type)))
        /\ reading.device_id = Strip(input.device_id)
        /\ reading.vehicle_id = input.vehicle_id
        /\ reading.driver_id = input.driver_id
        /\ reading.sensor_location = input.sensor_location
        /\ reading.timestamp =
              IF IsNone(input.timestamp) THEN NowUtc
              ELSE UtcInstant(Val(input.timestamp))

\* every sensor field given, a padded device id and gas type, a raw timestamp
\* with a UTC offset
C14_Witness ==
    /\ pc = "validated"
    /\ SatisfiesDataModel(input)
    /\ \A k \in NumericFields : NotNone(input[k])
    /\ input.device_id = Pad(MaxPad) \o SafeCar001 \o Pad(MaxPad)
    /\ input.gas_type = Some(Pad(MaxPad) \o Methane)
    /\ input.sensor_location = Some("CABINA")
    /\ input.timestamp = Some("2025-11-13T05:30:00-05:00")
    /\ reading.timestamp = 630
    /\ reading.gas_type = Some(Methane)

(***************************************************************************)
(* Properties of the classification and of the backend payload              *)
(***************************************************************************)
Mapped == pc = "mapped" /\ result.ok /\ NotNone(payload)

\* the payload key of each numeric field that has one
PayloadKeyOf(k) ==
    CASE k = "cabin_temperature_celsius" -> "cabinTemperature"
      [] k = "engine_temperature_celsius" -> "engineTemperature"
      [] k = "cabin_humidity_percent" -> "cabinHumidity"
      [] k = "gas_concentration_ppm" -> "cabinGasConcentration"
      [] k = "latitude" -> "latitude"
      [] k = "longitude" -> "longitude"
      [] k = "current_amperes" -> "electricalCurrent"

MappedFields == NumericFields \ {"engine_humidity_percent"}

\* k is the only sensor field given (with a gas type for the concentration)
OnlySensorField(f, k) ==
    /\ NotNone(f[k])
    /\ \A j \in NumericFields \ {k} : IsNone(f[j])
    /\ IF k = "gas_concentration_ppm" THEN GasPairComplete(f)
       ELSE IsNone(f.gas_type)

OnlyZero(k) == Called /\ OnlySensorField(input, k) /\ input[k] = Some(0)

OnlyGpsPair(f) ==
    /\ NotNone(f.latitude) /\ NotNone(f.longitude)
    /\ \A j \in NumericFields \ {"latitude", "longitude"} : IsNone(f[j])
    /\ IsNone(f.gas_type)

TypeReturned == pc \in {"classified", "mapped"}

\* C15: a sensor field of value 0 is present. Validation: an input whose only
\* sensor field is a temperature, a humidity, the current or the gas
\* concentration (with a gas type) at 0 is accepted and the reading holds the
\* 0; latitude 0 with a longitude (and longitude 0 with a latitude) is a
\* complete pair. Classification: a humidity 0 and a current 0 raise the
\* severity to WARNING, the severity is the maximum of the rules with 0
\* counted as a value, and the type of a reading with only a 0 is that of its
\* field. Mapping: every field at 0 that has a payload key appears under it
\* with value 0.
C15_ZeroIsPresent ==
    /\ \A k \in NumericFields \ {"latitude", "longitude"} :
          OnlyZero(k) => result.ok /\ reading[k] = Some(0)
    /\ (/\ Called
        /\ NotNone(input.latitude) /\ NotNone(input.longitude)
        /\ Some(0) \in {input.latitude, input.longitude})
          => /\ result.error # IncompleteCoordinatePair
             /\ result.ok => has_gps_reading(reading)
             /\ OnlyGpsPair(input) => result.ok
    /\ Returned =>
          /\ Rank(severity) = MaxLevel(reading)
          /\ reading.current_amperes = Some(0) => Rank(severity) >= 1
          /\ reading.cabin_humidity_percent = Some(0) => Rank(severity) >= 1
          /\ reading.engine_humidity_percent = Some(0) => Rank(severity) >= 1
    /\ TypeReturned =>
          /\ OnlyZero("current_amperes") => telemetry_type = "ELECTRICAL_FAULT"
          /\ OnlyZero("gas_concentration_ppm")
                => telemetry_type = "CABIN_GAS_DETECTED"
          /\ OnlyZero("cabin_temperature_celsius")
                => telemetry_type = "TEMPERATURE_ANOMALY"
          /\ OnlyZero("engine_temperature_celsius")
                => telemetry_type = "TEMPERATURE_ANOMALY"
          /\ (OnlyGpsPair(input) /\ input.latitude = Some(0))
                => telemetry_type = "LOCATION_UPDATE"
    /\ Mapped =>
          \A k \in MappedFields :
              (/\ reading[k] = Some(0)
               /\ k = "gas_concentration_ppm" => NotNone(reading.gas_type)
               /\ k \in {"latitude", "longitude"} => has_gps_reading(reading))
                => /\ PayloadKeyOf(k) \in DOMAIN Val(payload)
                   /\ Val(payload)[PayloadKeyOf(k)] = 0

\* a reading whose only sensor field is a current of 0, classified and mapped
C15_Witness ==
    /\ Mapped
    /\ OnlyZero("current_amperes")
    /\ severity = "WARNING"
    /\ telemetry_type = "ELECTRICAL_FAULT"
    /\ Val(payload)["electricalCurrent"] = 0

BaseKeys == {"macAddress", "type", "severity", "timestamp"}

\* C16: the payload built is a flat map whose key set is exactly macAddress,
\* type, severity, timestamp, plus cabinTemperature, engineTemperature,
\* cabinHumidity, electricalCurrent for each of these fields present, plus
\* cabinGasType and cabinGasConcentration when the gas pair is present, plus
\* latitude and longitude when the GPS pair is present; macAddress is the
\* device id, type and severity are the arguments, every numeric value is the
\* reading's value.
C16_PayloadKeySet ==
    Mapped =>
        LET p == Val(payload)
            single == {"cabin_temperature_celsius", "engine_temperature_celsius",
                       "cabin_humidity_percent", "current_amperes"}
            gas == NotNone(reading.gas_type) /\ NotNone(reading.gas_concentration_ppm)
            gps == NotNone(reading.latitude) /\ NotNone(reading.longitude)
        IN  /\ DOMAIN p =
                  BaseKeys
                    \cup {PayloadKeyOf(k) : k \in {j \in single : NotNone(reading[j])}}
                    \cup (IF gas THEN {"cabinGasType", "cabinGasConcentration"} ELSE {})
                    \cup (IF gps THEN {"latitude", "longitude"} ELSE {})
            /\ p["macAddress"] = reading.device_id
            /\ p["type"] = telemetry_type
            /\ p["severity"] = severity
            /\ \A k \in single : NotNone(reading[k]) => p[PayloadKeyOf(k)] = Val(reading[k])
            /\ gas => p["cabinGasConcentration"] = Val(reading.gas_concentration_ppm)
            /\ gps => /\ p["latitude"] = Val(reading.latitude)
                      /\ p["longitude"] = Val(reading.longitude)

\* every sensor field present, the engine humidity too
C16_Witness ==
    /\ Mapped
    /\ \A k \in NumericFields : NotNone(reading[k])
    /\ NotNone(reading.gas_type)
    /\ Cardinality(DOMAIN Val(payload)) = 12
    /\ "electricalCurrent" \in DOMAIN Val(payload)

FuelVaporLabels == {Methane, Propane, Butane, Lpg, Alcohol, Hydrogen}

GasMapped == Mapped /\ has_gas_reading(reading)

\* C17 as stated: for every reading with a gas pair, cabinGasType is
\* FUEL_VAPOR exactly when the gas label equals, ignoring case, one of
\* methane, propane, butane, lpg, alcohol, hydrogen, and UNKNOWN for every
\* other label; it is always one of these two values.
C17_FuelVaporOrUnknown ==
    GasMapped =>
        /\ Val(payload)["cabinGasType"] =
              IF Lower(Val(reading.gas_type)) \in FuelVaporLabels
              THEN "FUEL_VAPOR" ELSE "UNKNOWN"
        /\ Val(payload)["cabinGasType"] \in {"FUEL_VAPOR", "UNKNOWN"}

\* C17 amended: cabinGasType is FUEL_VAPOR exactly when the gas label equals,
\* ignoring case, one of methane, propane, butane, lpg, alcohol, hydrogen;
\* it is SMOKE for smoke, CO for co, CO2 for co2 (ignoring case) and UNKNOWN
\* for every other label; it is always one of these five values.
C17_GasTypeMapping ==
    GasMapped =>
        LET label == Lower(Val(reading.gas_type))
            out == Val(payload)["cabinGasType"]
        IN  /\ out = "FUEL_VAPOR" <=> label \in FuelVaporLabels
            /\ out = "SMOKE" <=> label = Smoke
            /\ out = "CO" <=> label = Co
            /\ out = "CO2" <=> label = Co2
            /\ out = "UNKNOWN" <=> label \notin FuelVaporLabels \cup {Smoke, Co, Co2}
            /\ out \in {"FUEL_VAPOR", "SMOKE", "CO", "CO2", "UNKNOWN"}

\* the label ProPane, in mixed case, mapped to FUEL_VAPOR
C17_Witness ==
    /\ GasMapped
    /\ reading.gas_type = Some(PropaneMixedCase)
    /\ Val(payload)["cabinGasType"] = "FUEL_VAPOR"

Severities == {"INFO", "WARNING", "CRITICAL"}

TelemetryTypes ==
    {"CABIN_GAS_DETECTED", "ENGINE_OVERHEAT", "ELECTRICAL_FAULT",
     "LOCATION_UPDATE", "TEMPERATURE_ANOMALY", "GENERAL"}

\* C19: for every reading returned by create_sensor_reading the severity is
\* INFO, WARNING or CRITICAL, the type is one of CABIN_GAS_DETECTED,
\* ENGINE_OVERHEAT, ELECTRICAL_FAULT, LOCATION_UPDATE, TEMPERATURE_ANOMALY,
\* GENERAL, and _build_telemetry_payload returns a payload holding at least
\* the four base keys.
C19_ClassificationTotal ==
    /\ result.ok =>
          /\ determine_alert_severity(reading) \in Severities
          /\ determine_telemetry_type(reading) \in TelemetryTypes
          /\ BaseKeys \subseteq
                DOMAIN _build_telemetry_payload(reading,
                            determine_telemetry_type(reading),
                            determine_alert_severity(reading))
    /\ Returned => severity \in Severities
    /\ TypeReturned => telemetry_type \in TelemetryTypes
    /\ pc = "mapped" =>
          /\ NotNone(payload)
          /\ BaseKeys \subseteq DOMAIN Val(payload)
          /\ Val(payload)["type"] \in TelemetryTypes
          /\ Val(payload)["severity"] \in Severities

\* a reading with only humidities, which no type rule matches, is GENERAL
C19_Witness ==
    /\ pc = "mapped"
    /\ NotNone(reading.cabin_humidity_percent)
    /\ NotNone(reading.engine_humidity_percent)
    /\ telemetry_type = "GENERAL"
    /\ severity = "WARNING"
    /\ DOMAIN Val(payload) = BaseKeys \cup {"cabinHumidity"}

(***************************************************************************)
(* Properties of record_sensor_reading                                      *)
(***************************************************************************)
Created201 == HttpResponse(201)

\* C20: whatever the POST does (a status other than 201, a timeout, a
\* connection error or any other exception), record_sensor_reading does not
\* raise once the reading is saved: the saved reading stays in the store, the
\* call returns the result with the saved id, and backend_synced is true
\* exactly when the backend answered 201; the call raises only before
\* anything is saved or sent.
C20_BackendFailureNonFatal ==
    /\ pc \in {"sent", "returned"} =>
          /\ ~response.raised
          /\ Len(store) = 1
          /\ store[1] = [reading EXCEPT !.id = Some(1)]
          /\ Len(sent) = 1
          /\ backend_success <=> sent[1].outcome = Created201
    /\ pc = "returned" =>
          /\ NotNone(response.value)
          /\ Val(response.value).id = Val(store[1].id)
          /\ Val(response.value).backend_synced <=> sent[1].outcome = Created201
    /\ response.raised => pc = "raised" /\ store = <<>> /\ sent = <<>>

\* the POST timed out and the call returned the saved id, not synced
C20_Witness ==
    /\ pc = "returned"
    /\ sent[1].outcome = Raised("Timeout")
    /\ Len(store) = 1
    /\ Val(response.value).id = 1
    /\ Val(response.value).backend_synced = FALSE

(***************************************************************************)
(* Further properties of the classification                                 *)
(***************************************************************************)
HighHumidity(h) == NotNone(h) /\ Val(h) >= HUMIDITY_WARNING_HIGH

\* C26 as stated: a validated reading with a present cabin or engine humidity
\* at or above HUMIDITY_WARNING_HIGH (75 %) is classified at least WARNING.
C26_HighHumidityIsWarning ==
    (/\ Returned
     /\ \/ HighHumidity(reading.cabin_humidity_percent)
        \/ HighHumidity(reading.engine_humidity_percent))
       => Rank(severity) >= 1

\* C27 as stated: for every validated reading classified CRITICAL the type
\* returned is CABIN_GAS_DETECTED, ENGINE_OVERHEAT, ELECTRICAL_FAULT or
\* TEMPERATURE_ANOMALY, never LOCATION_UPDATE or GENERAL.
C27_CriticalNeverLocationUpdate ==
    (TypeReturned /\ severity = "CRITICAL") =>
        telemetry_type \in {"CABIN_GAS_DETECTED", "ENGINE_OVERHEAT",
                            "ELECTRICAL_FAULT", "TEMPERATURE_ANOMALY"}

(***************************************************************************)
(* Further properties of record_sensor_reading                              *)
(***************************************************************************)
\* C21: one call of record_sensor_reading saves at most one reading and makes
\* at most one POST, whatever each step's outcome; when the POST failed there
\* is still exactly one POST (no retry), and a call that raised made none.
C21_AtMostOneSaveAndPost ==
    /\ Len(store) <= 1
    /\ Len(sent) <= 1
    /\ (pc \in {"sent", "returned"} /\ ~backend_success) =>
          Len(sent) = 1 /\ Len(store) = 1
    /\ pc = "raised" => sent = <<>>

\* the backend answered 500: one save, one POST, the call returned
C21_Witness ==
    /\ pc = "returned"
    /\ Len(store) = 1
    /\ Len(sent) = 1
    /\ sent[1].outcome = HttpResponse(500)
    /\ ~backend_success

DeviceMatches ==
    \E d \in devices : d.device_id = input.device_id /\ d.api_key = api_key

NothingDone ==
    /\ ~result.ok /\ result.error = "" /\ IsNone(result.reading)
    /\ store = <<>>
    /\ sent = <<>>

\* C23: the device lookup comes first: before it nothing is validated, saved
\* or sent, and validation, persistence and transmission happen only for a
\* device that matches (device_id, api_key); when no device matches the call
\* raises 'Device not found or invalid API key' and no reading is
\* constructed, persisted or sent.
C23_LookupFirst ==
    /\ pc = "record_start" => NothingDone
    /\ ~NothingDone => DeviceMatches
    /\ (pc # "record_start" /\ ~DeviceMatches) =>
          /\ pc = "raised"
          /\ response.raised
          /\ response.error = "Device not found or invalid API key"
          /\ NothingDone

\* a registered device id with a wrong key, beside valid sensor data
C23_Witness ==
    /\ pc = "raised"
    /\ input.device_id = SafeCar001
    /\ api_key # TestApiKey
    /\ create_sensor_reading([input EXCEPT !.vehicle_id = Some(1), !.driver_id = Some(1)]).ok
    /\ response.error = "Device not found or invalid API key"
    /\ NothingDone

\* C28: in every run that reaches the POST the reading is already persisted
\* (with its id); the payload sent holds the device id and every mapped
\* sensor value of the persisted reading; the severity and the type sent are
\* the ones returned to the caller.
C28_PersistBeforePost ==
    /\ sent # <<>> =>
          /\ Len(store) = 1
          /\ NotNone(store[1].id)
          /\ sent[1].payload["macAddress"] = store[1].device_id
          /\ \A k \in MappedFields :
                NotNone(store[1][k]) =>
                    /\ PayloadKeyOf(k) \in DOMAIN sent[1].payload
                    /\ sent[1].payload[PayloadKeyOf(k)] = Val(store[1][k])
    /\ pc = "returned" =>
          /\ sent[1].payload["severity"] = Val(response.value).severity
          /\ sent[1].payload["type"] = Val(response.value).telemetry_type
          /\ Val(response.value).id = Val(store[1].id)

\* a synced CRITICAL reading with every field the record inputs offer
C28_Witness ==
    /\ pc = "returned"
    /\ backend_success
    /\ store[1].cabin_temperature_celsius = Some(550)
    /\ store[1].engine_temperature_celsius = Some(985)
    /\ NotNone(store[1].gas_concentration_ppm)
    /\ NotNone(store[1].latitude)
    /\ NotNone(store[1].current_amperes)
    /\ sent[1].payload["severity"] = "CRITICAL"
    /\ Val(response.value).severity = "CRITICAL"

(***************************************************************************)
(* iam: AuthApplicationService.register_device and authenticate            *)
(***************************************************************************)

\* the shortest API key create_device accepts (domain/services.py line 36)
MIN_API_KEY_LENGTH == 8

\* the clock of a registration
RegisteredAt == NowUtc + 1

\* DeviceService.create_device, lines 32-43: both blank tests strip, the length
\* test reads the key as given, and the entity holds both strings stripped
create_device(device_id, key) ==
    IF device_id = <<>> \/ Strip(device_id) = <<>>
    THEN RaiseValueError("Device ID cannot be empty")
    ELSE IF key = <<>> \/ Strip(key) = <<>>
    THEN RaiseValueError("API key cannot be empty")
    ELSE IF Len(key) < MIN_API_KEY_LENGTH
    THEN RaiseValueError("API key must be at least 8 characters long")
    ELSE [raised |-> FALSE, error |-> "",
          value |-> Some([device_id |-> Strip(device_id), api_key |-> Strip(key), created_at |-> RegisteredAt])]

\* a save that inserts a row whether or not the device id is stored
DeviceRepository_save_insert_only(table, device) == table \cup {device}

\* DeviceRepository.save, lines 12-35: get_or_create on the primary key
\* device_id; a row that exists gets the new api_key and created_at
DeviceRepository_save(table, device) ==
    {d \in table : d.device_id # device.device_id} \cup {device}

\* AuthApplicationService.authenticate, lines 20-32
authenticate(device_id, key) == NotNone(get_device_by_id_and_api_key(device_id, key))

SecondKey == <<"k", "e", "y", "-", "0", "0", "0", "0", "2">>

ShortKey == <<"k", "e", "y", "-", "0", "0", "7">>

SixChars == <<"a", "b", "c", "d", "e", "f">>

\* the device ids and the keys of the calls: stored and new ids, clean and
\* padded, blank and empty; keys of 7, 8 and 9 characters and a key of 6
\* characters between spaces
IamDeviceIds == {SafeCar001, Pad(MaxPad) \o SafeCar001, UnknownDevice, Pad(MaxPad), <<>>}

IamApiKeys == {TestApiKey, SecondKey, ShortKey, Pad(1) \o SixChars \o Pad(MaxPad), Pad(MaxPad), <<>>}

\* the number of calls of one run
MaxCalls == 3

InitIam ==
    /\ input \in Fields({SafeCar001}, {None}, {None}, {None}, {None}, {None}, {None}, {None}, {None}, {None}, {None}, {None}, {None}, {None})
    /\ pc = "iam"
    /\ result = [ok |-> FALSE, error |-> "", reading |-> None]
    /\ severity = ""
    /\ telemetry_type = ""
    /\ payload = None
    /\ api_key = <<>>
    /\ devices = RegisteredDevices
    /\ store = <<>>
    /\ sent = <<>>
    /\ backend_success = FALSE
    /\ response = NoResponse
    /\ ServiceIdle

\* application/services.py lines 34-49: create_device, then save
RegisterDevice ==
    /\ pc = "iam"
    /\ calls < MaxCalls
    /\ \E id \in IamDeviceIds, key \in IamApiKeys :
          LET created == create_device(id, key)
          IN  /\ iam_call' = [op |-> "register_device", device_id |-> id, api_key |-> key,
                              raised |-> created.raised, error |-> created.error, value |-> created.value]
              /\ devices' = IF created.raised THEN devices
                            ELSE DeviceRepository_save(devices, Val(created.value))
    /\ calls' = calls + 1
    /\ UNCHANGED <<input, pc, result, severity, telemetry_type, payload, api_key, store, sent, backend_success, response, request, http_response, first_request, db_inits, thread_pc>>

\* application/services.py lines 20-32
Authenticate ==
    /\ pc = "iam"
    /\ calls < MaxCalls
    /\ \E id \in IamDeviceIds, key \in IamApiKeys :
          iam_call' = [op |-> "authenticate", device_id |-> id, api_key |-> key,
                       raised |-> FALSE, error |-> "", value |-> Some(authenticate(id, key))]
    /\ calls' = calls + 1
    /\ UNCHANGED <<input, pc, result, severity, telemetry_type, payload, record_state, request, http_response, first_request, db_inits, thread_pc>>

NextIam == RegisterDevice \/ Authenticate

SpecIam == InitIam /\ [][NextIam]_vars

(***************************************************************************)
(* C29, C30: registration and authentication                               *)
(***************************************************************************)

Registered == iam_call.op = "register_device" /\ ~iam_call.raised

\* C29: after a successful register_device(device_id, api_key), authenticate
\* with the same two strings is True and the stored API key has at least 8
\* characters.
C29_RegisterThenAuthenticate ==
    Registered =>
        /\ authenticate(iam_call.device_id, iam_call.api_key)
        /\ Len(Val(iam_call.value).api_key) >= 8

\* the keys tried against the table: those of the calls, as given and stripped
KeysTried == IamApiKeys \cup {Strip(k) : k \in IamApiKeys}

OnePerDeviceId == \A d1 \in devices, d2 \in devices : d1.device_id = d2.device_id => d1 = d2

OnlyStoredKeyAuthenticates ==
    \A d \in devices : \A k \in KeysTried : authenticate(d.device_id, k) <=> k = d.api_key

\* what one call does to the table: a successful registration leaves its
\* device as the only row of its id and no other row touched; a rejected
\* registration and an authentication leave the table as it was
RegistrationStep ==
    calls' # calls =>
        IF iam_call'.op = "register_device" /\ ~iam_call'.raised
        THEN LET s == Val(iam_call'.value)
             IN  /\ s \in devices'
                 /\ \A d \in devices' : d.device_id = s.device_id => d = s
                 /\ {d \in devices' : d.device_id # s.device_id} = {d \in devices : d.device_id # s.device_id}
        ELSE devices' = devices

\* C30: after any sequence of register_device calls there is at most one
\* stored device per device_id, the only key that authenticates a device is
\* the one stored by its most recent successful registration (the key it
\* replaced stops authenticating), and a rejected registration leaves the
\* stored devices unchanged.
C30_OneDeviceLatestKey ==
    /\ [](OnePerDeviceId /\ OnlyStoredKeyAuthenticates)
    /\ [][RegistrationStep]_vars

\* a stored device was registered again with another key: the new key
\* authenticates, the old one does not, and the table holds one row
C30_Witness ==
    /\ Registered
    /\ iam_call.device_id = SafeCar001
    /\ iam_call.api_key = SecondKey
    /\ authenticate(SafeCar001, SecondKey)
    /\ ~authenticate(SafeCar001, TestApiKey)
    /\ Cardinality(devices) = 1

(***************************************************************************)
(* telemetry/interfaces/services.py: POST of a sensor reading over HTTP    *)
(***************************************************************************)

\* the blueprint prefix and the route of create_sensor_reading (lines 5, 8)
SamplesPath == "/api/v1/telemetry/samples"

\* the URL test_integration.py posts to (line 16)
DataRecordsPath == "/api/v1/telemetry/data-records"

\* dict.get: the value of the key, None when the key is absent
data_get(data, key) == IF key \in DOMAIN data THEN data[key] ELSE None

\* the parameters of record_sensor_reading, application/services.py lines 28-43
RecordParameters ==
    {"device_id", "api_key", "sensor_location", "cabin_temperature_celsius",
     "cabin_humidity_percent", "engine_temperature_celsius", "engine_humidity_percent",
     "gas_type", "gas_concentration_ppm", "latitude", "longitude", "current_amperes",
     "timestamp"}

\* the keyword arguments of the handler's call, lines 47-55
HandlerKeywords(device_id, key, data) ==
    [device_id |-> device_id,
     api_key |-> key,
     temperature_celsius |-> data_get(data, "temperature_celsius"),
     gas_type |-> data_get(data, "gas_type"),
     gas_concentration_ppm |-> data_get(data, "gas_concentration_ppm"),
     current_amperes |-> data_get(data, "current_amperes"),
     timestamp |-> data_get(data, "timestamp")]

\* the fields create_sensor_reading receives, application/services.py lines
\* 73-92: a parameter not passed has its default None
ReadingFields(kwargs) ==
    [device_id |-> kwargs.device_id,
     vehicle_id |-> Some(1),
     driver_id |-> Some(1),
     sensor_location |-> data_get(kwargs, "sensor_location"),
     cabin_temperature_celsius |-> data_get(kwargs, "cabin_temperature_celsius"),
     cabin_humidity_percent |-> data_get(kwargs, "cabin_humidity_percent"),
     engine_temperature_celsius |-> data_get(kwargs, "engine_temperature_celsius"),
     engine_humidity_percent |-> data_get(kwargs, "engine_humidity_percent"),
     gas_type |-> data_get(kwargs, "gas_type"),
     gas_concentration_ppm |-> data_get(kwargs, "gas_concentration_ppm"),
     latitude |-> data_get(kwargs, "latitude"),
     longitude |-> data_get(kwargs, "longitude"),
     current_amperes |-> data_get(kwargs, "current_amperes"),
     timestamp |-> data_get(kwargs, "timestamp")]

\* what a call leaves: the exception raised ("" for none), its message, the
\* value returned, the readings stored and the POSTs made
CallResult(exception, msg, value, stored, posted) ==
    [raised |-> exception, error |-> msg, value |-> value, store |-> stored, sent |-> posted]

\* record_sensor_reading as one call, application/services.py lines 28-117:
\* keywords that are no parameter raise TypeError before the body runs
record_sensor_reading(kwargs, outcome) ==
    IF ~(DOMAIN kwargs \subseteq RecordParameters)
    THEN CallResult("TypeError", "unexpected keyword argument", None, store, sent)
    ELSE IF IsNone(get_device_by_id_and_api_key(kwargs.device_id, kwargs.api_key))
    THEN CallResult("ValueError", "Device not found or invalid API key", None, store, sent)
    ELSE LET created == create_sensor_reading(ReadingFields(kwargs))
         IN  IF ~created.ok
             THEN CallResult("ValueError", created.error, None, store, sent)
             ELSE LET saved == save(Val(created.reading))
                      sev == determine_alert_severity(saved)
                      kind == determine_telemetry_type(saved)
                      built == _build_telemetry_payload(saved, kind, sev)
                      value == [id |-> Val(saved.id),
                                device_id |-> saved.device_id,
                                sensor_location |-> saved.sensor_location,
                                timestamp |-> [iso |-> isoformat(saved.timestamp), suffix |-> "Z"],
                                severity |-> sev,
                                telemetry_type |-> kind,
                                backend_synced |-> send_telemetry_sample(outcome),
                                created_at |-> [iso |-> isoformat(saved.created_at), suffix |-> "Z"]]
                  IN  CallResult("", "", Some(value), Append(store, saved),
                                 Append(sent, [payload |-> built, outcome |-> outcome]))

\* the keys of a JSON body that carries every sensor field
BodyKeys == RecordParameters \ {"device_id", "api_key"}

Body(f) == [k \in BodyKeys |-> f[k]]

\* the body the handler's docstring shows, lines 17-23
DocstringBody ==
    [temperature_celsius |-> Some(855),
     gas_type |-> Some(Methane),
     gas_concentration_ppm |-> Some(4500),
     current_amperes |-> Some(23),
     timestamp |-> Some("2025-11-13T10:30:00Z")]

\* Bodies of the requests: the cabin and engine bodies of
\* test_integration.py, bodies with an engine temperature out of range or an
\* unparsable timestamp, and the body of the docstring.
HttpBodies ==
    {Body(f) : f \in Fields({SafeCar001}, {None}, {None},
                            {Some("CABINA"), Some("MOTOR")},
                            Opt({285}),
                            Opt({680}),
                            Opt({985, 2000}),
                            {None},
                            {None, Some(Methane)},
                            Opt({12500}),
                            Opt({-120}),
                            Opt({-770}),
                            Opt({43}),
                            {Some("2025-11-13T10:30:00Z"), Some("not-a-date")})}
    \cup {DocstringBody}

HttpRequests ==
    [path : {SamplesPath, DataRecordsPath},
     device_id : {None, Some(SafeCar001), Some(UnknownDevice)},
     api_key : {None, Some(TestApiKey), Some(WrongApiKey)},
     data : {None} \cup {Some(b) : b \in HttpBodies}]

HttpAnswer(code, msg, data) == [status_code |-> code, error |-> msg, data |-> data]

InitHttp ==
    /\ request \in HttpRequests
    /\ pc = "request"
    /\ input \in Fields({SafeCar001}, {None}, {None}, {None}, {None}, {None}, {None}, {None}, {None}, {None}, {None}, {None}, {None}, {None})
    /\ result = [ok |-> FALSE, error |-> "", reading |-> None]
    /\ severity = ""
    /\ telemetry_type = ""
    /\ payload = None
    /\ api_key = <<>>
    /\ devices = RegisteredDevices
    /\ store = <<>>
    /\ sent = <<>>
    /\ backend_success = FALSE
    /\ response = NoResponse
    /\ iam_call = NoCall
    /\ calls = 0
    /\ http_response = NoHttpResponse
    /\ first_request = FALSE
    /\ db_inits = 1
    /\ thread_pc = <<>>

\* the URL map: only the route of line 8 reaches the handler, every other
\* path is answered 404
Route ==
    /\ pc = "request"
    /\ IF request.path = SamplesPath
       THEN pc' = "handler" /\ http_response' = http_response
       ELSE pc' = "responded" /\ http_response' = HttpAnswer(404, "Not Found", None)
    /\ UNCHANGED <<input, result, severity, telemetry_type, payload, record_state, iam_call, calls, request, first_request, db_inits, thread_pc>>

\* the handler create_sensor_reading of telemetry_api, lines 31-65
telemetry_api_create_sensor_reading ==
    /\ pc = "handler"
    /\ \E outcome \in PostOutcomes :
          IF ~Truthy(request.device_id) \/ ~Truthy(request.api_key)
          THEN /\ http_response' = HttpAnswer(401, "Missing authentication headers: X-Device-Id and X-API-Key required", None)
               /\ UNCHANGED <<store, sent>>
          ELSE IF IsNone(request.data) \/ DOMAIN Val(request.data) = {}
          THEN /\ http_response' = HttpAnswer(400, "Request body is required", None)
               /\ UNCHANGED <<store, sent>>
          ELSE LET call == record_sensor_reading(
                               HandlerKeywords(Val(request.device_id), Val(request.api_key), Val(request.data)),
                               outcome)
               IN  /\ http_response' =
                         IF call.raised = "" THEN HttpAnswer(201, "", call.value)
                         ELSE IF call.raised = "ValueError" THEN HttpAnswer(400, call.error, None)
                         ELSE HttpAnswer(500, "Internal error", None)
                   /\ store' = call.store
                   /\ sent' = call.sent
    /\ pc' = "responded"
    /\ UNCHANGED <<input, result, severity, telemetry_type, payload, api_key, devices, backend_success, response, iam_call, calls, request, first_request, db_inits, thread_pc>>

NextHttp == Route \/ telemetry_api_create_sensor_reading

SpecHttp == InitHttp /\ [][NextHttp]_vars

(***************************************************************************)
(* C22, C24: the request boundary                                          *)
(***************************************************************************)

\* the sensor fields of the request body as create_sensor_reading would
\* receive them if each reached record_sensor_reading under its own name
BodyFields ==
    ReadingFields([k \in RecordParameters |->
                      IF k = "device_id" THEN Val(request.device_id)
                      ELSE IF k = "api_key" THEN Val(request.api_key)
                      ELSE data_get(Val(request.data), k)])

\* a request to the route with the headers of a registered device and a body
FromRegisteredDevice ==
    /\ request.path = SamplesPath
    /\ request.device_id = Some(SafeCar001)
    /\ request.api_key = Some(TestApiKey)
    /\ NotNone(request.data)

\* C24: a POST to the ingestion endpoint with the headers of a registered
\* device and a body of valid sensor fields is answered 201 with a data
\* object holding id, severity, telemetry_type and backend_synced, and the
\* sensor fields of the body are those of the reading recorded.
C24_ValidPostCreated ==
    (pc = "responded" /\ FromRegisteredDevice /\ create_sensor_reading(BodyFields).ok) =>
        /\ http_response.status_code = 201
        /\ NotNone(http_response.data)
        /\ {"id", "severity", "telemetry_type", "backend_synced"} \subseteq DOMAIN Val(http_response.data)
        /\ Len(store) = 1
        /\ \A k \in {"sensor_location", "cabin_temperature_celsius", "cabin_humidity_percent", "engine_temperature_celsius", "gas_concentration_ppm", "latitude", "longitude", "current_amperes"} :
               store[1][k] = BodyFields[k]

\* C22: when the sensor fields of a request fail validation, nothing is
\* persisted or sent and the request is answered 400 with the validation
\* error.
C22_InvalidPostIs400 ==
    (pc = "responded" /\ FromRegisteredDevice /\ ~create_sensor_reading(BodyFields).ok) =>
        /\ http_response.status_code = 400
        /\ http_response.error = create_sensor_reading(BodyFields).error
        /\ store = <<>>
        /\ sent = <<>>

(***************************************************************************)
(* app.py: the before_request hook setup() under the threaded server       *)
(***************************************************************************)

\* the number of requests served, each by a thread of its own
MaxRequests == 3

Requests == 1..MaxRequests

\* the device id "edge-device-001" of the test device, shortened
EdgeDevice001 == <<"e", "d", "g", "e", "1">>

\* iam repositories.py lines 62-66: the row get_or_create_test_device makes
TestDevice == [device_id |-> EdgeDevice001, api_key |-> TestApiKey, created_at |-> NowUtc]

\* the process after import: the flag of line 26 set, no table, no request
InitBoot ==
    /\ first_request = TRUE
    /\ db_inits = 0
    /\ devices = {}
    /\ thread_pc = [t \in Requests |-> "waiting"]
    /\ pc = "boot"
    /\ input \in Fields({SafeCar001}, {None}, {None}, {None}, {None}, {None}, {None}, {None}, {None}, {None}, {None}, {None}, {None}, {None})
    /\ result = [ok |-> FALSE, error |-> "", reading |-> None]
    /\ severity = ""
    /\ telemetry_type = ""
    /\ payload = None
    /\ api_key = <<>>
    /\ store = <<>>
    /\ sent = <<>>
    /\ backend_success = FALSE
    /\ response = NoResponse
    /\ iam_call = NoCall
    /\ calls = 0
    /\ request = NoRequest
    /\ http_response = NoHttpResponse

Goto(t, label) == thread_pc' = [thread_pc EXCEPT ![t] = label]

\* a request arrives and its thread enters the before_request hook
Arrive ==
    /\ \E t \in Requests : thread_pc[t] = "waiting" /\ Goto(t, "setup")
    /\ UNCHANGED <<input, pc, result, severity, telemetry_type, payload, record_state, iam_call, calls, request, http_response, first_request, db_inits>>

\* line 37: the flag is read; a thread that reads False leaves the hook and
\* goes on to its handler
TestFirstRequest ==
    /\ \E t \in Requests :
          /\ thread_pc[t] = "setup"
          /\ Goto(t, IF first_request THEN "clear_flag" ELSE "handler")
    /\ UNCHANGED <<input, pc, result, severity, telemetry_type, payload, record_state, iam_call, calls, request, http_response, first_request, db_inits>>

\* line 38
ClearFirstRequest ==
    /\ \E t \in Requests : thread_pc[t] = "clear_flag" /\ Goto(t, "init_db")
    /\ first_request' = FALSE
    /\ UNCHANGED <<input, pc, result, severity, telemetry_type, payload, record_state, iam_call, calls, request, http_response, db_inits>>

\* line 39: init_db creates the tables (database.py lines 15-34)
InitDb ==
    /\ \E t \in Requests : thread_pc[t] = "init_db" /\ Goto(t, "create_test_device")
    /\ db_inits' = db_inits + 1
    /\ UNCHANGED <<input, pc, result, severity, telemetry_type, payload, record_state, iam_call, calls, request, http_response, first_request>>

\* lines 40-41: get_or_create of the test device, then the hook returns
GetOrCreateTestDevice ==
    /\ \E t \in Requests : thread_pc[t] = "create_test_device" /\ Goto(t, "handler")
    /\ devices' = IF \E d \in devices : d.device_id = EdgeDevice001 THEN devices ELSE devices \cup {TestDevice}
    /\ UNCHANGED <<input, pc, result, severity, telemetry_type, payload, api_key, store, sent, backend_success, response, iam_call, calls, request, http_response, first_request, db_inits>>

\* the request handler runs
Handle ==
    /\ \E t \in Requests : thread_pc[t] = "handler" /\ Goto(t, "handled")
    /\ UNCHANGED <<input, pc, result, severity, telemetry_type, payload, record_state, iam_call, calls, request, http_response, first_request, db_inits>>

NextBoot ==
    \/ Arrive
    \/ TestFirstRequest
    \/ ClearFirstRequest
    \/ InitDb
    \/ GetOrCreateTestDevice
    \/ Handle

SpecBoot == InitBoot /\ [][NextBoot]_vars

(***************************************************************************)
(* C25: start-up                                                           *)
(***************************************************************************)

\* C25: the hook initializes the database and creates the test device
\* exactly once, and no request handler runs before the tables and the test
\* device exist, whichever way the requests interleave.
C25_SetupOnceBeforeHandlers ==
    /\ db_inits <= 1
    /\ \A t \in Requests :
          thread_pc[t] \in {"handler", "handled"} => db_inits = 1 /\ TestDevice \in devices

====
